---------------------------- MODULE Spec2Model ----------------------------
(***************************************************************************)
(* A model of the campaign tool: the deny-list filters and validators of   *)
(* app/generator.py, generate_csv and the worker that calls it, the        *)
(* error-file parser of app/error_parser.py, and the connection sequence   *)
(* of app/gui.py over app/api_client.py.                                   *)
(*                                                                         *)
(* Python str values are TLA+ strings; Len, \o and SubSeq act on them       *)
(* character by character.                                                 *)
(***************************************************************************)
EXTENDS Integers, Sequences, FiniteSets, TLC

VARIABLES
  fn,          \* the pure function last applied ("idle" before any call)
  fn_args,     \* its arguments
  fn_result    \* its return value

fnVars == << fn, fn_args, fn_result >>

VARIABLES
  hash_seed,       \* the interpreter's str hash seed, fixed when the process starts
  farmer,          \* settings["farmer_tag"]
  config,          \* App.config
  banned,          \* App.banned
  banned_domains,  \* App.banned_domains
  is_generating,   \* App.is_generating
  selected,        \* the urls _start_generation hands to its worker
  w_pc,            \* where the do_generate thread is
  w_i,             \* its loop index into selected
  w_acc,           \* its success_count, fail_count, all_errors, generated_files
  log_calls,       \* the log_generation requests the worker has sent
  submitted,       \* the submit_errors batches the worker has sent
  g_pc,            \* where the running generate_csv call is
  g_site,          \* its website_url and business_name
  content,         \* its content dict (unset before generate_content returns)
  draft_keywords,  \* original_kw: the draft's keywords before filtering
  removed,         \* the keywords filter_keywords removed
  rows,            \* the row dicts it has built
  result,          \* its result dict
  content_calls,   \* how often it has called generate_content
  out_file         \* the file at its filepath

appVars == << hash_seed, farmer, config, banned, banned_domains, is_generating >>
workerVars == << selected, w_pc, w_i, w_acc, log_calls, submitted >>
callVars == << g_pc, g_site, content, draft_keywords, removed, rows, result,
               content_calls, out_file >>
genVars == << appVars, workerVars, callVars >>

VARIABLES
  p_file,          \* the file at the path parse_error_csv is given
  p_pc,            \* where the parse_error_csv call is
  p_exc,           \* the exception it raised (None when none)
  p_delimiter,     \* delimiter
  p_headers,       \* headers
  p_error_col,     \* error_col
  p_has_row_type,  \* has_row_type
  p_line,          \* the index of the next line the reader hands out
  p_trace,         \* per row read so far: the row, how it was counted, what it added
  all_errors,      \* all_errors
  total_rows,      \* total_rows
  error_rows,      \* error_rows
  success_rows,    \* success_rows
  parse_result     \* the ParseResult returned (None before the return)

VARIABLES
  feedback_parsed,  \* App.feedback_parsed: << >> for None, else << the ParseResult >>
  submit_enabled,   \* whether btn_submit_errors can be pressed
  feedback_status,  \* what lbl_feedback_status shows
  s_pc,             \* where the do_submit thread and what follows it is
  s_result,         \* the answer to its submit_ad_errors request
  ad_posts          \* the submit_ad_errors requests sent

feedbackVars == << feedback_parsed, submit_enabled, feedback_status, s_pc, s_result,
                   ad_posts >>

parseVars == << p_file, p_pc, p_exc, p_delimiter, p_headers, p_error_col, p_has_row_type,
                p_line, p_trace, all_errors, total_rows, error_rows, success_rows,
                parse_result, feedbackVars >>

VARIABLES
  tag_locked,      \* settings["tag_locked"]
  sites,           \* App.sites
  is_connected,    \* App.is_connected
  c_pc,            \* where the do_startup / do_sync / do_refresh thread is
  c_kind,          \* which of the three it is
  c_msg,           \* the message test_connection returned
  sync_data,       \* the dict sync_all is building
  req_failed,      \* the actions whose request failed in the running thread
  cache,           \* SheetAPI._cache with SheetAPI._cache_time
  clock,           \* time.time(), in seconds since the process started
  conn_info        \* what the connection label shows

VARIABLES
  account_view     \* what the account tab shows: the tag input, the dev tag or the locked tag

accountVars == << account_view >>

VARIABLES
  cached_config,   \* GistResolver._cached_config
  gist_answers,    \* what the Gist gave to each fetch_config call so far, oldest first
  gist_config      \* what the last fetch_config call returned

gistVars == << cached_config, gist_answers, gist_config >>

VARIABLES
  api_calls        \* the _get_cached and clear_cache calls made on the SheetAPI, oldest first

cacheVars == << api_calls >>

VARIABLES
  picks,             \* the do_parse threads started by _pick_error_csv, oldest first
  feedback_filepath, \* App.feedback_filepath, the file whose name the tab shows
  posted             \* how many _on_csv_parsed / _on_csv_parse_error callbacks were posted

pickVars == << picks, feedback_filepath, posted >>

connVars == << tag_locked, sites, is_connected, c_pc, c_kind, c_msg, sync_data, req_failed, cache,
               clock, conn_info, accountVars, gistVars, cacheVars, pickVars >>

vars == << fnVars, genVars, parseVars, connVars >>

----------------------------------------------------------------------------
(* Python str operations *)

UpperLetters == "ABCDEFGHIJKLMNOPQRSTUVWXYZ"
LowerLetters == "abcdefghijklmnopqrstuvwxyz"
Digits == "0123456789"

CharAt(s, i) == SubSeq(s, i, i)

\* the position of the one-character string c in s, 0 when absent
IndexOf(s, c) ==
  IF \E i \in 1..Len(s) : CharAt(s, i) = c
  THEN CHOOSE i \in 1..Len(s) : CharAt(s, i) = c
  ELSE 0

\* the lower-case letter of each upper-case letter
LowerMap ==
  [c \in {CharAt(UpperLetters, i) : i \in 1..Len(UpperLetters)} |->
     CharAt(LowerLetters, IndexOf(UpperLetters, c))]

LowerChar(c) == IF c \in DOMAIN LowerMap THEN LowerMap[c] ELSE c

\* str.lower()
RECURSIVE lower(_)
lower(s) ==
  IF Len(s) = 0 THEN ""
  ELSE IF Len(s) = 1 THEN LowerChar(s)
  ELSE lower(SubSeq(s, 1, Len(s) \div 2)) \o lower(SubSeq(s, Len(s) \div 2 + 1, Len(s)))

\* str.upper()
RECURSIVE upper(_)
upper(s) ==
  IF Len(s) = 0 THEN ""
  ELSE (IF IndexOf(LowerLetters, CharAt(s, 1)) > 0
        THEN CharAt(UpperLetters, IndexOf(LowerLetters, CharAt(s, 1)))
        ELSE CharAt(s, 1)) \o upper(SubSeq(s, 2, Len(s)))

IsSpace(c) == c \in {" ", "\t", "\n", "\r"}

\* str.strip()
RECURSIVE lstrip(_)
lstrip(s) ==
  IF Len(s) > 0 /\ IsSpace(CharAt(s, 1)) THEN lstrip(SubSeq(s, 2, Len(s))) ELSE s

RECURSIVE rstrip(_)
rstrip(s) ==
  IF Len(s) > 0 /\ IsSpace(CharAt(s, Len(s))) THEN rstrip(SubSeq(s, 1, Len(s) - 1)) ELSE s

strip(s) == rstrip(lstrip(s))

\* needle in hay
Contains(hay, needle) ==
  \E i \in 1..(Len(hay) - Len(needle) + 1) :
    SubSeq(hay, i, i + Len(needle) - 1) = needle

\* the least position at which needle occurs in hay, 0 when it does not
Find(hay, needle) ==
  LET P == {i \in 1..(Len(hay) - Len(needle) + 1) :
              SubSeq(hay, i, i + Len(needle) - 1) = needle}
  IN IF P = {} THEN 0 ELSE CHOOSE i \in P : \A j \in P : i <= j

\* the greatest position at which needle occurs in hay, 0 when it does not
RFind(hay, needle) ==
  LET P == {i \in 1..(Len(hay) - Len(needle) + 1) :
              SubSeq(hay, i, i + Len(needle) - 1) = needle}
  IN IF P = {} THEN 0 ELSE CHOOSE i \in P : \A j \in P : i >= j

\* s[:n]
Prefix(s, n) == SubSeq(s, 1, IF n < Len(s) THEN n ELSE Len(s))

\* s.rsplit(' ', 1)[0]
RsplitHead(s) ==
  LET i == RFind(s, " ") IN IF i = 0 THEN s ELSE SubSeq(s, 1, i - 1)

\* s.replace(old, new), left to right, non-overlapping
RECURSIVE replace(_, _, _)
replace(s, old, new) ==
  LET i == Find(s, old) IN
  IF Len(old) = 0 \/ i = 0 THEN s
  ELSE SubSeq(s, 1, i - 1) \o new \o replace(SubSeq(s, i + Len(old), Len(s)), old, new)

StartsWith(s, p) == Len(p) <= Len(s) /\ SubSeq(s, 1, Len(p)) = p

\* the elements of seq at the positions of mask, in order
RECURSIVE Pick(_, _, _)
Pick(seq, mask, i) ==
  IF i > Len(seq) THEN << >>
  ELSE (IF i \in mask THEN << seq[i] >> ELSE << >>) \o Pick(seq, mask, i + 1)

\* seq[:n] of a list
Take(seq, n) == SubSeq(seq, 1, IF n < Len(seq) THEN n ELSE Len(seq))

Range(seq) == {seq[i] : i \in 1..Len(seq)}

None == "<None>"

\* dict.get(key, default)
Get(d, key, default) == IF key \in DOMAIN d THEN d[key] ELSE default

\* the list without repeats, first occurrences kept
RECURSIVE Dedupe(_)
Dedupe(seq) ==
  IF seq = << >> THEN << >>
  ELSE LET front == Dedupe(SubSeq(seq, 1, Len(seq) - 1))
           x == seq[Len(seq)]
       IN IF x \in Range(front) THEN front ELSE Append(front, x)

RemoveAt(seq, i) == SubSeq(seq, 1, i - 1) \o SubSeq(seq, i + 1, Len(seq))

\* the k-th arrangement of seq (k = 0 keeps it as it is)
RECURSIVE Arrange(_, _)
Arrange(seq, k) ==
  IF seq = << >> THEN << >>
  ELSE LET i == (k % Len(seq)) + 1
       IN << seq[i] >> \o Arrange(RemoveAt(seq, i), k \div Len(seq))

\* list(set(seq)): the distinct elements, in the order the hash seed gives them
list_of_set_sorted(seq, seed) == Dedupe(seq)

list_of_set(seq, seed) == Arrange(Dedupe(seq), seed)

IsDigits(s) == Len(s) > 0 /\ \A i \in 1..Len(s) : IndexOf(Digits, CharAt(s, i)) > 0

RECURSIVE DigitsValue(_)
DigitsValue(s) ==
  IF Len(s) = 0 THEN 0
  ELSE 10 * DigitsValue(SubSeq(s, 1, Len(s) - 1)) + (IndexOf(Digits, CharAt(s, Len(s))) - 1)

\* int(s) of a str: its value, or not ok where int raises ValueError
py_int(s) ==
  IF IsDigits(strip(s)) THEN [ok |-> TRUE, value |-> DigitsValue(strip(s))]
  ELSE [ok |-> FALSE, value |-> 0]

isalnum(c) ==
  IndexOf(UpperLetters, c) > 0 \/ IndexOf(LowerLetters, c) > 0 \/ IndexOf(Digits, c) > 0

RECURSIVE safe_name(_)
safe_name(s) ==
  IF Len(s) = 0 THEN ""
  ELSE (IF isalnum(CharAt(s, 1)) THEN CharAt(s, 1) ELSE "_") \o safe_name(SubSeq(s, 2, Len(s)))

----------------------------------------------------------------------------
(* app/generator.py: filters and validators *)

\* the inner loop of filter_keywords: kw_lower against every lowered denied term
is_banned_oneway(kw_lower, banned_lower) ==
  \E i \in 1..Len(banned_lower) : Contains(kw_lower, banned_lower[i])

is_banned(kw_lower, banned_lower) ==
  \E i \in 1..Len(banned_lower) :
    Contains(kw_lower, banned_lower[i]) \/ Contains(banned_lower[i], kw_lower)

kw_is_removed(kw, ban) ==
  is_banned(strip(lower(kw)), [i \in 1..Len(ban) |-> lower(ban[i])])

\* filter_keywords: << filtered, removed >>
filter_keywords(keywords, ban) ==
  << SelectSeq(keywords, LAMBDA kw : ~kw_is_removed(kw, ban)),
     SelectSeq(keywords, LAMBDA kw : kw_is_removed(kw, ban)) >>

url_domain(url) ==
  LET clean == replace(replace(replace(lower(url), "https://", ""), "http://", ""), "www.", "")
      i == Find(clean, "/")
  IN IF i = 0 THEN clean ELSE SubSeq(clean, 1, i - 1)

filter_by_domains(url, domains) ==
  LET domain == url_domain(url) IN
  \E i \in 1..Len(domains) :
    Contains(domain, lower(domains[i])) \/ Contains(lower(domains[i]), domain)

forbidden == << "best", "cheap", "free", "#1", "guaranteed" >>

HeadlineMax == 30
HeadlineMin == 5
HeadlineCap == 8

\* the headline after strip and the cut at the last space within 30 characters
headline_cut(h) ==
  LET t == strip(h) IN
  IF Len(t) > HeadlineMax THEN RsplitHead(Prefix(t, HeadlineMax)) ELSE t

has_banned(h_lower) == \E i \in 1..Len(forbidden) : Contains(h_lower, forbidden[i])

headline_ok_nomin(h) == ~has_banned(lower(h))

headline_ok(h) == ~has_banned(lower(h)) /\ Len(h) >= HeadlineMin

\* the loop of validate_headlines from position i on, returning validated
RECURSIVE headlines_loop(_, _, _, _)
headlines_loop(headlines, i, validated, seen) ==
  IF i > Len(headlines) THEN validated
  ELSE LET h == headline_cut(headlines[i])
           h_lower == lower(h)
       IN IF h_lower \in seen
          THEN headlines_loop(headlines, i + 1, validated, seen)
          ELSE headlines_loop(headlines, i + 1,
                              IF headline_ok(h) THEN Append(validated, h) ELSE validated,
                              seen \cup {h_lower})

headlines_cap_none(validated) == validated

headlines_cap(validated) == Take(validated, HeadlineCap)

validate_headlines(headlines) == headlines_cap(headlines_loop(headlines, 1, << >>, {}))

DescriptionMax == 90
DescriptionMin == 20
DescriptionCap == 2

description_cut(d) ==
  LET t == strip(d) IN
  IF Len(t) > DescriptionMax THEN RsplitHead(Prefix(t, DescriptionMax)) ELSE t

validate_descriptions(descriptions) ==
  Take(SelectSeq([i \in 1..Len(descriptions) |-> description_cut(descriptions[i])],
                 LAMBDA d : Len(d) >= DescriptionMin),
       DescriptionCap)

----------------------------------------------------------------------------
(* app/generator.py: generate_csv *)

KeywordFloor == 5
KeywordCap == 10
HeadlineFloor == 3
DescriptionFloor == 2
NameMax == 30
NameKeep == 27

default_keywords(business_name) ==
  << business_name \o " membership",
     "fitness classes DC",
     "gym membership DC",
     "personal training near me",
     "workout classes DC" >>

\* the backfill with the list(set(...)) left out
backfill_keywords_none(keywords, business_name, seed) == keywords

backfill_keywords(keywords, business_name, seed) ==
  IF Len(keywords) < KeywordFloor
  THEN Take(list_of_set(keywords \o default_keywords(business_name), seed), KeywordCap)
  ELSE keywords

short_name(business_name) ==
  IF Len(business_name) > NameMax THEN Prefix(business_name, NameKeep) \o "..."
  ELSE business_name

backfill_headlines(headlines, business_name) ==
  IF Len(headlines) < HeadlineFloor
  THEN << "Join " \o short_name(business_name) \o " Today",
          "Start Your Fitness Journey",
          "Transform Your Body Now" >>
  ELSE headlines

backfill_descriptions(descriptions, business_name) ==
  IF Len(descriptions) < DescriptionFloor
  THEN << "Join " \o business_name \o ". Expert trainers & flexible memberships. Start today!",
          "Transform your fitness with our community. Personal & group training available." >>
  ELSE descriptions

match_type(cfg) ==
  replace(replace(Get(cfg, "keyword_match_type", "Broad match"), " match", ""), " Match", "")

\* int(config.get("campaign_days", "7") or "7")
campaign_days(cfg) ==
  LET v == Get(cfg, "campaign_days", "7") IN py_int(IF v = "" THEN "7" ELSE v)

\* strftime of today plus a number of days
date_str(days) == IF days = 0 THEN "today" ELSE "today+" \o ToString(days)

campaign_name(business_name) == business_name \o " - Search Campaign"
ad_group_name(business_name) == business_name \o " - Main"

campaign_row(cfg, business_name, days) ==
  [c \in {"Campaign", "Campaign status", "Campaign type", "Networks", "Budget",
          "Bid strategy type", "Start date", "End date", "Location", "Language",
          "EU political ads"} |->
     CASE c = "Campaign" -> campaign_name(business_name)
       [] c = "Campaign status" -> "Enabled"
       [] c = "Campaign type" -> "Search"
       [] c = "Networks" -> Get(cfg, "networks", "Google Search")
       [] c = "Budget" -> Get(cfg, "budget", "10")
       [] c = "Bid strategy type" -> Get(cfg, "bid_strategy", "Maximize Conversions")
       [] c = "Start date" -> date_str(0)
       [] c = "End date" -> date_str(days)
       [] c = "Location" -> Get(cfg, "target_country", "United States")
       [] c = "Language" -> Get(cfg, "target_language", "en")
       [] c = "EU political ads" -> Get(cfg, "eu_political_ads", "No")]

\* an ad-group row that also names its kind in a "Row Type" field
ad_group_row_typed(business_name) ==
  [c \in {"Campaign", "Ad group", "Ad group status", "Row Type"} |->
     CASE c = "Campaign" -> campaign_name(business_name)
       [] c = "Ad group" -> ad_group_name(business_name)
       [] c = "Ad group status" -> "Enabled"
       [] c = "Row Type" -> "Ad group"]

ad_group_row(business_name) ==
  [c \in {"Campaign", "Ad group", "Ad group status"} |->
     CASE c = "Campaign" -> campaign_name(business_name)
       [] c = "Ad group" -> ad_group_name(business_name)
       [] c = "Ad group status" -> "Enabled"]

keyword_row(business_name, kw, mt) ==
  [c \in {"Campaign", "Ad group", "Keyword", "Keyword match type"} |->
     CASE c = "Campaign" -> campaign_name(business_name)
       [] c = "Ad group" -> ad_group_name(business_name)
       [] c = "Keyword" -> kw
       [] c = "Keyword match type" -> mt]

\* the keywords that get a row, with the cap of 10 left out
row_keywords_nocap(keywords) == keywords

row_keywords(keywords) == Take(keywords, KeywordCap)

keyword_rows(business_name, keywords, mt) ==
  [i \in 1..Len(row_keywords(keywords)) |->
     keyword_row(business_name, row_keywords(keywords)[i], mt)]

final_url(website_url) ==
  IF StartsWith(website_url, "http") THEN website_url ELSE "https://" \o website_url

ad_row(website_url, business_name, headlines, descriptions) ==
  LET hs == Take(headlines, HeadlineCap)
      ds == Take(descriptions, DescriptionCap)
      hcols == {"Headline " \o ToString(i) : i \in 1..Len(hs)}
      dcols == {"Description " \o ToString(i) : i \in 1..Len(ds)}
  IN [c \in {"Campaign", "Ad group", "Ad type", "Ad status", "Final URL"}
              \cup hcols \cup dcols |->
        CASE c = "Campaign" -> campaign_name(business_name)
          [] c = "Ad group" -> ad_group_name(business_name)
          [] c = "Ad type" -> "Responsive search ad"
          [] c = "Ad status" -> "Enabled"
          [] c = "Final URL" -> final_url(website_url)
          [] c \in hcols ->
               Prefix(hs[CHOOSE i \in 1..Len(hs) : c = "Headline " \o ToString(i)], HeadlineMax)
          [] OTHER ->
               Prefix(ds[CHOOSE i \in 1..Len(ds) : c = "Description " \o ToString(i)],
                      DescriptionMax)]

\* rows, in the order generate_csv appends them
build_rows(website_url, business_name, cfg, days, c) ==
  << campaign_row(cfg, business_name, days), ad_group_row(business_name) >>
    \o keyword_rows(business_name, c.keywords, match_type(cfg))
    \o << ad_row(website_url, business_name, c.headlines, c.descriptions) >>

MaxHeadlineCols == 15
MaxDescriptionCols == 4

priority ==
  << "Campaign", "Campaign status", "Campaign type",
     "Networks", "Budget", "Bid strategy type",
     "Start date", "End date", "Location", "Language",
     "EU political ads",
     "Ad group", "Ad group status",
     "Keyword", "Keyword match type",
     "Ad type", "Ad status", "Final URL" >>
    \o [i \in 1..MaxHeadlineCols |-> "Headline " \o ToString(i)]
    \o [i \in 1..MaxDescriptionCols |-> "Description " \o ToString(i)]

\* the characters sorted() tells apart, in code point order
CodePoints ==
  " #&.0123456789ABCDEFGHIJKLMNOPQRSTUVWXYZ_abcdefghijklmnopqrstuvwxyz"

RECURSIVE StrLess(_, _)
StrLess(a, b) ==
  IF Len(b) = 0 THEN FALSE
  ELSE IF Len(a) = 0 THEN TRUE
  ELSE LET x == IndexOf(CodePoints, CharAt(a, 1))
           y == IndexOf(CodePoints, CharAt(b, 1))
       IN IF x # y THEN x < y
          ELSE StrLess(SubSeq(a, 2, Len(a)), SubSeq(b, 2, Len(b)))

\* sorted(S) of a set of str
sorted(S) ==
  IF S = {} THEN << >>
  ELSE CHOOSE q \in [1..Cardinality(S) -> S] :
         \A i, j \in 1..Cardinality(S) : i < j => StrLess(q[i], q[j])

columns_of(rs) ==
  LET all_columns == UNION {DOMAIN rs[i] : i \in 1..Len(rs)}
      cols == SelectSeq(priority, LAMBDA c : c \in all_columns)
  IN cols \o sorted(all_columns \ Range(cols))

\* a writer that leaves out the cells of the columns the row does not define
row_cells_present(cols, row) ==
  LET defined == SelectSeq(cols, LAMBDA c : c \in DOMAIN row)
  IN [i \in 1..Len(defined) |-> row[defined[i]]]

\* what csv.DictWriter writes for a row: a cell per column, "" where the row has none
row_cells(cols, row) == [i \in 1..Len(cols) |-> Get(row, cols[i], "")]

\* the lines of the complete file: the header, then a line per row
file_lines(rs) ==
  << columns_of(rs) >> \o [i \in 1..Len(rs) |-> row_cells(columns_of(rs), rs[i])]

filepath_of(business_name) == "ads_" \o safe_name(business_name) \o "_today.csv"

NoFile == [exists |-> FALSE, lines |-> << >>, complete |-> FALSE]

failed_result(error) ==
  [success |-> FALSE, filepath |-> "", removed_keywords |-> << >>,
   stats |-> [error |-> error]]

removed_keywords(rem) ==
  [i \in 1..Len(rem) |-> [value |-> rem[i], type |-> "keyword", reason |-> "Generic"]]

\* the domain check at the head of generate_csv
domain_gate_open(website_url, domains) == FALSE

domain_gate(website_url, domains) == filter_by_domains(website_url, domains)

----------------------------------------------------------------------------
(* app/gui.py: _start_generation, its do_generate thread and the generate_csv
   calls the thread makes *)

MaxDraftKw == 11
MaxHashSeed == 1

Sites ==
  << [url |-> "https://www.fitclub.com/join", name |-> "FitClub"],
     [url |-> "yogahub.com", name |-> "Yoga Hub"] >>

FarmerTags == {"anna", "_DEV_"}

\* the deny-lists the sheet may hold
BannedLists == { << >>, << "yoga" >>, << "gym" >>, << "Yoga", "gym" >> }

BannedDomainLists == { << >>, << "FitClub.com" >> }

\* the keywords a draft may hold: its first n, for n up to MaxDraftKw
DraftKwPool ==
  << "yoga classes", "fitness classes DC", "yoga classes", "pilates DC",
     "gym near me", "spin class", "hot yoga", "HIIT training", "crossfit box",
     "barre studio", "swim lessons", "dance cardio", "boxing club" >>

\* the headlines and descriptions a draft may hold
DraftTexts ==
  << [headlines |-> << "Join FitClub Today", "Group Classes Daily", "Book A Trial Class" >>,
      descriptions |-> << "Train with expert coaches in a friendly community.",
                          "Flexible memberships and classes for every level." >>],
     [headlines |-> << "Best Gym In Town", "Open Seven Days A Week" >>,
      descriptions |-> << "Too short", "Flexible memberships and classes for every level." >>] >>

\* the configurations the sheet may hold
ConfigPool ==
  << [campaign_days |-> ""],
     [budget |-> "25", bid_strategy |-> "Manual CPC", networks |-> "Google Search;Search Partners",
      target_country |-> "Canada", target_language |-> "fr", eu_political_ads |-> "Yes",
      keyword_match_type |-> "Phrase match", campaign_days |-> "14"],
     [campaign_days |-> "two weeks"] >>

\* no pure function is being called on its own
InitFn ==
  /\ fn = "idle"
  /\ fn_args = << >>
  /\ fn_result = << >>

\* no path has been handed to parse_error_csv
NoPath == [path |-> "", exists |-> FALSE, readable |-> FALSE, lines |-> << >>]

\* no parse_error_csv call has started
ParseIdle ==
  /\ p_pc = "idle"
  /\ p_exc = None
  /\ p_delimiter = None
  /\ p_headers = << >>
  /\ p_error_col = None
  /\ p_has_row_type = FALSE
  /\ p_line = 0
  /\ p_trace = << >>
  /\ all_errors = << >>
  /\ total_rows = 0
  /\ error_rows = 0
  /\ success_rows = 0
  /\ parse_result = None

\* no connection thread runs and SheetAPI's cache is empty
_is_dev_mode(tag) == upper(strip(tag)) = "_DEV_"

\* what _build_account_tab shows for the settings given
account_view_of(tag, locked) ==
  IF locked THEN "locked"
  ELSE IF _is_dev_mode(tag) THEN "dev"
  ELSE "input"

\* the account tab as _build_account_tab leaves it
AccountBuilt == account_view = account_view_of(farmer, tag_locked)

\* a GistResolver as __init__ leaves it, before any call
GistNew ==
  /\ cached_config = << >>
  /\ gist_answers = << >>
  /\ gist_config = None

\* a SheetAPI as __init__ leaves it, no call made
ApiNew == api_calls = << >>

\* the feedback tab with no file picked yet
NoPicks ==
  /\ picks = << >>
  /\ feedback_filepath = None
  /\ posted = 0

ConnIdle ==
  /\ c_pc = "none"
  /\ c_kind = None
  /\ c_msg = None
  /\ sync_data = << >>
  /\ req_failed = {}
  /\ cache = << >>
  /\ clock = 0
  /\ conn_info = None

\* the feedback tab as _build_feedback_page leaves it
FeedbackIdle ==
  /\ feedback_parsed = << >>
  /\ submit_enabled = FALSE
  /\ feedback_status = ""
  /\ s_pc = "none"
  /\ s_result = None
  /\ ad_posts = << >>

\* nothing is parsed
ParseAtRest == p_file = NoPath /\ ParseIdle /\ FeedbackIdle

\* the application before it connects
ConnAtRest ==
  /\ tag_locked = FALSE
  /\ sites = << >>
  /\ is_connected = FALSE
  /\ ConnIdle
  /\ AccountBuilt
  /\ GistNew
  /\ ApiNew
  /\ NoPicks

EmptyAcc ==
  [success_count |-> 0, fail_count |-> 0, all_errors |-> << >>, generated_files |-> << >>]

\* a local of generate_csv or of its caller while no call is running: it holds no value
Unset == [unset |-> TRUE]

CallIdle ==
  /\ g_pc = "idle"
  /\ g_site = Unset
  /\ content = Unset
  /\ draft_keywords = << >>
  /\ removed = << >>
  /\ rows = << >>
  /\ result = Unset
  /\ content_calls = 0
  /\ out_file = Unset

WorkerIdle ==
  /\ selected = << >>
  /\ w_pc = "none"
  /\ w_i = 0
  /\ w_acc = EmptyAcc
  /\ log_calls = << >>
  /\ submitted = << >>

\* the application connected, with what the sheet gave it
InitGen ==
  /\ hash_seed \in 0..MaxHashSeed
  /\ farmer \in FarmerTags
  /\ config = << >>
  /\ banned \in BannedLists
  /\ banned_domains \in BannedDomainLists
  /\ is_generating = FALSE
  /\ WorkerIdle
  /\ CallIdle
  /\ InitFn
  /\ ParseAtRest
  /\ tag_locked = (farmer # "_DEV_")
  /\ sites = Sites
  /\ is_connected = TRUE
  /\ ConnIdle
  /\ AccountBuilt
  /\ GistNew
  /\ ApiNew
  /\ NoPicks

\* a guard that never finds a generation running
busy_never(generating) == FALSE

\* the first test of _start_generation: a generation is running
busy(generating) == generating

\* _start_generation, gen_mode "random": one site picked at random
StartGeneration ==
  /\ ~busy(is_generating)
  /\ is_connected
  /\ farmer # ""
  /\ \E k \in 1..Len(sites) :
       /\ sites[k].url # ""
       /\ selected' = << sites[k].url >>
  /\ is_generating' = TRUE
  /\ w_pc' = "refresh"
  /\ w_i' = 1
  /\ w_acc' = EmptyAcc
  /\ log_calls' = << >>
  /\ submitted' = << >>
  /\ UNCHANGED << hash_seed, farmer, config, banned, banned_domains, callVars, fnVars, parseVars, connVars >>

\* _start_generation while a generation runs: the "busy" message, nothing else
StartGenerationBusy ==
  /\ busy(is_generating)
  /\ UNCHANGED vars

\* do_generate: clear_cache, get_config; an empty or failed answer keeps the config
WorkerRefreshConfig ==
  /\ w_pc = "refresh"
  /\ \E fresh \in Range(ConfigPool) \cup {<< >>} :
       config' = IF DOMAIN fresh # {} THEN fresh ELSE config
  /\ w_pc' = "loop"
  /\ UNCHANGED << hash_seed, farmer, banned, banned_domains, is_generating, selected,
                  w_i, w_acc, log_calls, submitted, callVars, fnVars, parseVars, connVars >>

site_name(url) ==
  IF \E k \in 1..Len(sites) : sites[k].url = url
  THEN sites[CHOOSE k \in 1..Len(sites) :
               /\ sites[k].url = url
               /\ \A j \in 1..Len(sites) : sites[j].url = url => k <= j].name
  ELSE url

\* generate_csv entered for selected[w_i]: the domain check
GenCsvCall ==
  /\ w_pc = "loop"
  /\ g_pc = "idle"
  /\ w_i <= Len(selected)
  /\ g_site' = [website_url |-> selected[w_i], business_name |-> site_name(selected[w_i])]
  /\ content' = Unset
  /\ draft_keywords' = << >>
  /\ removed' = << >>
  /\ rows' = << >>
  /\ content_calls' = 0
  /\ out_file' = NoFile
  /\ IF domain_gate(selected[w_i], banned_domains)
     THEN /\ result' = failed_result("Banned domain")
          /\ g_pc' = "returned"
     ELSE /\ result' = [success |-> FALSE, filepath |-> "", removed_keywords |-> << >>,
                        stats |-> << >>]
          /\ g_pc' = "generate_content"
  /\ UNCHANGED << appVars, workerVars, fnVars, parseVars, connVars >>

\* generate_content returns nothing: "Gemini failed"
GenContentFails ==
  /\ g_pc = "generate_content"
  /\ content_calls' = content_calls + 1
  /\ result' = failed_result("Gemini failed")
  /\ g_pc' = "returned"
  /\ UNCHANGED << appVars, workerVars, g_site, content, draft_keywords, removed, rows,
                  out_file, fnVars, parseVars, connVars >>

\* generate_content returns a draft, its headlines and descriptions validated;
\* generate_csv filters and backfills it, reads the configuration and builds the rows
GenContent ==
  /\ g_pc = "generate_content"
  /\ content_calls' = content_calls + 1
  /\ \E n \in 0..MaxDraftKw, t \in 1..Len(DraftTexts) :
       LET name == g_site.business_name
           original_kw == Take(DraftKwPool, n)
           fk == filter_keywords(original_kw, banned)
           c == [keywords |-> backfill_keywords(fk[1], name, hash_seed),
                 headlines |->
                   backfill_headlines(validate_headlines(DraftTexts[t].headlines), name),
                 descriptions |->
                   backfill_descriptions(validate_descriptions(DraftTexts[t].descriptions),
                                         name)]
           days == campaign_days(config)
       IN /\ draft_keywords' = original_kw
          /\ removed' = fk[2]
          /\ content' = c
          /\ result' = [result EXCEPT !.removed_keywords = removed_keywords(fk[2])]
          /\ IF ~days.ok
             THEN /\ g_pc' = "raised"
                  /\ rows' = << >>
             ELSE /\ g_pc' = "write"
                  /\ rows' = build_rows(g_site.website_url, name, config, days.value, c)
  /\ UNCHANGED << appVars, workerVars, g_site, out_file, fnVars, parseVars, connVars >>

\* open(filepath, 'w') raises: no file
GenOpenFails ==
  /\ g_pc = "write"
  /\ g_pc' = "raised"
  /\ UNCHANGED << appVars, workerVars, g_site, content, draft_keywords, removed, rows,
                  result, content_calls, out_file, fnVars, parseVars, connVars >>

\* the file is opened and a write raises after n lines; the with block closes the file
GenWriteFails ==
  /\ g_pc = "write"
  /\ \E n \in 0..Len(rows) :
       out_file' = [exists |-> TRUE, lines |-> Take(file_lines(rows), n), complete |-> FALSE]
  /\ g_pc' = "raised"
  /\ UNCHANGED << appVars, workerVars, g_site, content, draft_keywords, removed, rows,
                  result, content_calls, fnVars, parseVars, connVars >>

\* the header and every row are written; generate_csv returns success
GenWrite ==
  /\ g_pc = "write"
  /\ out_file' = [exists |-> TRUE, lines |-> file_lines(rows), complete |-> TRUE]
  /\ result' = [success |-> TRUE,
                filepath |-> filepath_of(g_site.business_name),
                removed_keywords |-> result.removed_keywords,
                stats |-> [keywords |-> Len(content.keywords),
                           headlines |-> Len(content.headlines),
                           descriptions |-> Len(content.descriptions),
                           removed |-> Len(removed),
                           campaign |-> campaign_name(g_site.business_name)]]
  /\ g_pc' = "returned"
  /\ UNCHANGED << appVars, workerVars, g_site, content, draft_keywords, removed, rows,
                  content_calls, fnVars, parseVars, connVars >>

\* do_generate takes the result of the call: counts it, logs the generation, collects
\* the removed keywords, and goes on to the next url
WorkerHandleResult ==
  /\ w_pc = "loop"
  /\ g_pc = "returned"
  /\ IF result.success
     THEN /\ w_acc' = [w_acc EXCEPT
                         !.success_count = @ + 1,
                         !.generated_files = Append(@, result.filepath),
                         !.all_errors = @ \o result.removed_keywords]
          /\ log_calls' = Append(log_calls, [farmer |-> farmer, site_url |-> selected[w_i]])
     ELSE /\ w_acc' = [w_acc EXCEPT !.fail_count = @ + 1]
          /\ log_calls' = log_calls
  /\ w_i' = w_i + 1
  /\ g_pc' = "idle"
  /\ g_site' = Unset
  /\ content' = Unset
  /\ draft_keywords' = << >>
  /\ removed' = << >>
  /\ rows' = << >>
  /\ result' = Unset
  /\ content_calls' = 0
  /\ out_file' = Unset
  /\ UNCHANGED << appVars, selected, w_pc, submitted, fnVars, parseVars, connVars >>

\* generate_csv raised: nothing in do_generate catches it, the thread ends
WorkerDies ==
  /\ w_pc = "loop"
  /\ g_pc = "raised"
  /\ w_pc' = "dead"
  /\ UNCHANGED << appVars, selected, w_i, w_acc, log_calls, submitted, callVars, fnVars, parseVars, connVars >>

\* the loop is over: submit_errors when there are any, then _on_generation_done is posted
WorkerFinish ==
  /\ w_pc = "loop"
  /\ g_pc = "idle"
  /\ w_i > Len(selected)
  /\ submitted' = IF w_acc.all_errors # << >>
                  THEN Append(submitted, [farmer |-> farmer, errors |-> w_acc.all_errors])
                  ELSE submitted
  /\ w_pc' = "posted"
  /\ UNCHANGED << appVars, selected, w_i, w_acc, log_calls, callVars, fnVars, parseVars, connVars >>

OnGenerationDone ==
  /\ w_pc = "posted"
  /\ is_generating' = FALSE
  /\ w_pc' = "none"
  /\ UNCHANGED << hash_seed, farmer, config, banned, banned_domains, selected, w_i, w_acc,
                  log_calls, submitted, callVars, fnVars, parseVars, connVars >>

NextGen ==
  \/ StartGeneration
  \/ StartGenerationBusy
  \/ WorkerRefreshConfig
  \/ GenCsvCall
  \/ GenContentFails
  \/ GenContent
  \/ GenOpenFails
  \/ GenWriteFails
  \/ GenWrite
  \/ WorkerHandleResult
  \/ WorkerDies
  \/ WorkerFinish
  \/ OnGenerationDone

SpecGen == InitGen /\ [][NextGen]_vars

\* the do_generate thread has a statement to run, or its callback is posted
WorkerAlive == w_pc \in {"refresh", "loop", "posted"}

\* where the thread and the call it makes are
workerPos == << w_pc, g_pc, w_i >>

\* a step of the do_generate thread or of the callback it posts, seen as a move of
\* their positions. Every step of WorkerRefreshConfig, GenCsvCall, GenContentFails,
\* GenContent, GenOpenFails, GenWriteFails, GenWrite, WorkerHandleResult, WorkerDies,
\* WorkerFinish and OnGenerationDone is one, and one of them is enabled in every
\* state where WorkerAlive holds.
WorkerMoves ==
  /\ WorkerAlive
  /\ \E a \in {"none", "refresh", "loop", "posted", "dead"},
        b \in {"idle", "generate_content", "write", "returned", "raised"},
        i \in 1..(Len(selected) + 1) :
       /\ w_pc' = a
       /\ g_pc' = b
       /\ w_i' = i

\* a running thread goes on and the event loop runs a posted callback
SpecGenLive == InitGen /\ [][NextGen]_vars /\ WF_workerPos(WorkerMoves)

----------------------------------------------------------------------------
(* Calls of the filters and validators on bounded inputs *)

MaxFilterKw == 6
MaxFilterBan == 3
MaxHeadlines == 7
MaxFill == 6

FilterKwPool ==
  << "yoga classes", "hot yoga", "Yoga", " gym", "pilates DC", "spin class", "gym" >>

FilterBanPool == << "yoga", "Extreme Yoga Studio", "gym x", "PILATES" >>

\* headlines of every kind validate_headlines tells apart
HeadlinePool ==
  << "Join FitClub Today",
     "  Transform Your Body Now  ",
     "Best Fitness Classes In Washington",
     "Personal Training Sessions In Washington",
     "join fitclub today",
     "Yoga",
     "Supercalifragilisticexpialidocious",
     "Gym Supercalifragilisticexpialidocious" >>

\* distinct headlines that pass as they are
HeadlineFill ==
  << "Start Your Fitness Journey",
     "Group Classes Daily",
     "Book A Trial Class",
     "Open Seven Days A Week",
     "Train With Expert Coaches",
     "Meet Our Community",
     "Classes For Every Level" >>

CallFilterKeywords ==
  /\ fn = "idle"
  /\ \E km \in SUBSET (1..MaxFilterKw), bm \in SUBSET (1..MaxFilterBan) :
       LET keywords == Pick(FilterKwPool, km, 1)
           banned_in == Pick(FilterBanPool, bm, 1)
       IN /\ fn' = "filter_keywords"
          /\ fn_args' = << keywords, banned_in >>
          /\ fn_result' = filter_keywords(keywords, banned_in)
  /\ UNCHANGED << genVars, parseVars, connVars >>

CallValidateHeadlines ==
  /\ fn = "idle"
  /\ \E hm \in SUBSET (1..MaxHeadlines), n \in 0..MaxFill :
       LET headlines == Pick(HeadlinePool, hm, 1) \o Take(HeadlineFill, n)
       IN /\ fn' = "validate_headlines"
          /\ fn_args' = << headlines >>
          /\ fn_result' = validate_headlines(headlines)
  /\ UNCHANGED << genVars, parseVars, connVars >>

OriginalMax == 500

\* the dedupe key taken as it is written
submission_key_exact(error) == << error.type, error.value >>

\* app/error_parser.py, errors_to_submission: key = (error.type, error.value.lower())
submission_key(error) == << error.type, lower(error.value) >>

\* the dict errors_to_submission appends for an error
submission_item(error, action) ==
  [type |-> error.type,
   value |-> error.value,
   reason |-> "Google Ads: " \o error.reason,
   original_error |-> Prefix(error.original_error, OriginalMax),
   action |-> action]

\* errors_to_submission(parsed, action) for parsed.errors = errors
errors_to_submission(errors, action) ==
  LET eligible(i) == errors[i].type \in {"keyword", "headline", "description"}
      seen_before(i) == \E j \in 1..(i - 1) :
                          eligible(j) /\ submission_key(errors[j]) = submission_key(errors[i])
      kept == SelectSeq([i \in 1..Len(errors) |-> i],
                        LAMBDA i : eligible(i) /\ ~seen_before(i))
  IN [k \in 1..Len(kept) |-> submission_item(errors[kept[k]], action)]

MaxErrors == 3

\* parsed errors with values that differ in case only, of several types
ErrorPool ==
  << [type |-> "keyword", value |-> "Gym", reason |-> "trademark in keyword text",
      original_error |-> "Policy violation: trademark in keyword text", row_type |-> "Keyword"],
     [type |-> "keyword", value |-> "gym", reason |-> "Rejected",
      original_error |-> "Rejected", row_type |-> "Keyword"],
     [type |-> "headline", value |-> "Join Now", reason |-> "Headline 1 too long",
      original_error |-> "Headline 1 too long", row_type |-> "Responsive search ad"],
     [type |-> "headline", value |-> "gym", reason |-> "Disapproved: trademark",
      original_error |-> "Disapproved: trademark", row_type |-> "Responsive search ad"],
     [type |-> "description", value |-> "Join now and save on every class.",
      reason |-> "Disapproved: trademark", original_error |-> "Disapproved: trademark",
      row_type |-> "Responsive search ad"],
     [type |-> "campaign", value |-> "FitClub - Search", reason |-> "Rejected",
      original_error |-> "Rejected", row_type |-> "Campaign"],
     [type |-> "other", value |-> "Gym", reason |-> "Invalid value",
      original_error |-> "Invalid value", row_type |-> "Sitelink"] >>

CallErrorsToSubmission ==
  /\ fn = "idle"
  /\ \E pick \in UNION {[1..n -> 1..Len(ErrorPool)] : n \in 0..MaxErrors},
        action \in {"auto_ban", "pending"} :
       LET errors == [i \in 1..Len(pick) |-> ErrorPool[pick[i]]]
       IN /\ fn' = "errors_to_submission"
          /\ fn_args' = << errors, action >>
          /\ fn_result' = errors_to_submission(errors, action)
  /\ UNCHANGED << genVars, parseVars, connVars >>

FnReturn ==
  /\ fn # "idle"
  /\ fn' = "idle"
  /\ fn_args' = << >>
  /\ fn_result' = << >>
  /\ UNCHANGED << genVars, parseVars, connVars >>

\* nothing generates while the functions are called on their own
GenAtRest ==
  /\ hash_seed = 0
  /\ farmer = ""
  /\ config = << >>
  /\ banned = << >>
  /\ banned_domains = << >>
  /\ is_generating = FALSE
  /\ WorkerIdle
  /\ CallIdle

InitFnCalls == InitFn /\ GenAtRest /\ ParseAtRest /\ ConnAtRest

NextFn ==
  \/ CallFilterKeywords
  \/ CallValidateHeadlines
  \/ CallErrorsToSubmission
  \/ FnReturn

SpecFn == InitFnCalls /\ [][NextFn]_vars

----------------------------------------------------------------------------
(* Claims about filter_keywords and validate_headlines *)

\* a denied term is a substring of the keyword or the keyword of a denied term,
\* both lowered, the keyword as given
DeniedAsGiven(kw, banned_in) ==
  \E i \in 1..Len(banned_in) :
    \/ Contains(lower(kw), lower(banned_in[i]))
    \/ Contains(lower(banned_in[i]), lower(kw))

\* the same test on the keyword with its surrounding whitespace trimmed
DeniedTrimmed(kw, banned_in) ==
  \E i \in 1..Len(banned_in) :
    \/ Contains(strip(lower(kw)), lower(banned_in[i]))
    \/ Contains(lower(banned_in[i]), strip(lower(kw)))

\* C5 as stated: filter_keywords splits the input, order kept, and removes exactly
\* the keywords that contain a denied term or are contained in one
\* (case-insensitive, the keyword taken as given).
C5_AsStated ==
  fn = "filter_keywords" =>
    /\ fn_result[1] = SelectSeq(fn_args[1], LAMBDA kw : ~DeniedAsGiven(kw, fn_args[2]))
    /\ fn_result[2] = SelectSeq(fn_args[1], LAMBDA kw : DeniedAsGiven(kw, fn_args[2]))

\* C5 amended: the same partition, the substring test applied to the keyword
\* after trimming its leading and trailing whitespace.
C5_FilterPartition ==
  fn = "filter_keywords" =>
    /\ fn_result[1] = SelectSeq(fn_args[1], LAMBDA kw : ~DeniedTrimmed(kw, fn_args[2]))
    /\ fn_result[2] = SelectSeq(fn_args[1], LAMBDA kw : DeniedTrimmed(kw, fn_args[2]))

\* deny-list [yoga, Extreme Yoga Studio] has removed "yoga classes", "hot yoga" and
\* "Yoga" (both directions of the test) and kept "pilates DC"
C5_Witness ==
  /\ fn = "filter_keywords"
  /\ fn_args[2] = << "yoga", "Extreme Yoga Studio" >>
  /\ fn_result[2] = << "yoga classes", "hot yoga", "Yoga" >>
  /\ fn_result[1] = << "pilates DC" >>

\* out is a subsequence of seq from position i on
RECURSIVE IsSubseqFrom(_, _, _, _)
IsSubseqFrom(out, j, seq, i) ==
  IF j > Len(out) THEN TRUE
  ELSE IF i > Len(seq) THEN FALSE
  ELSE IF out[j] = seq[i] THEN IsSubseqFrom(out, j + 1, seq, i + 1)
  ELSE IsSubseqFrom(out, j, seq, i + 1)

\* the trimmed input headline, cut at 30 characters and then back to the last space
TrimCut(h) ==
  LET t == strip(h)
      p == SubSeq(t, 1, 30)
      sp == {i \in 1..Len(p) : SubSeq(p, i, i) = " "}
  IN IF Len(t) <= 30 THEN t
     ELSE IF sp = {} THEN p
     ELSE SubSeq(p, 1, (CHOOSE i \in sp : \A j \in sp : j <= i) - 1)

\* C10: validate_headlines returns at most 8 headlines, in input order, each of
\* 5 to 30 characters, none containing a disallowed term, pairwise distinct
\* case-insensitively.
C10_ValidHeadlines ==
  fn = "validate_headlines" =>
    LET out == fn_result
        inp == fn_args[1]
    IN /\ Len(out) <= 8
       /\ IsSubseqFrom(out, 1, [i \in 1..Len(inp) |-> TrimCut(inp[i])], 1)
       /\ \A i \in 1..Len(out) :
            /\ Len(out[i]) >= 5 /\ Len(out[i]) <= 30
            /\ \A w \in {"best", "cheap", "free", "#1", "guaranteed"} :
                 ~Contains(lower(out[i]), w)
       /\ \A i, j \in 1..Len(out) : i # j => lower(out[i]) # lower(out[j])

\* nine valid headlines went in with a duplicate, a short one and a disallowed
\* one; exactly 8 came out
C10_Witness ==
  /\ fn = "validate_headlines"
  /\ Len(fn_args[1]) = 13
  /\ Len(fn_result) = 8
  /\ fn_result[2] = "Transform Your Body Now"
  /\ fn_result[3] = "Personal Training Sessions In"

\* the longest prefix of t of at most 30 characters that ends where a word ends,
\* "" when the first word of t is longer than that
WordPrefix(t) ==
  LET ends == {n \in 1..30 : n <= Len(t) /\ SubSeq(t, n, n) # " "
                              /\ (n = Len(t) \/ SubSeq(t, n + 1, n + 1) = " ")}
  IN IF ends = {} THEN "" ELSE SubSeq(t, 1, CHOOSE n \in ends : \A m \in ends : m <= n)

\* C11: every headline validate_headlines returns is a trimmed input headline of at
\* most 30 characters as it is, or the longest prefix of at most 30 characters of a
\* longer one that ends at the end of a whole word
C11_WordBoundaryCut ==
  fn = "validate_headlines" =>
    \A i \in 1..Len(fn_result) :
      \E k \in 1..Len(fn_args[1]) :
        LET t == strip(fn_args[1][k]) IN
        IF Len(t) <= 30 THEN fn_result[i] = t ELSE fn_result[i] = WordPrefix(t)

\* the errors of a list that errors_to_submission may pass on
Eligible(errors) ==
  SelectSeq(errors, LAMBDA e : e.type \in {"keyword", "headline", "description"})

\* the positions in seq of the first error of each (type, lowercased value) pair
FirstOfPair(seq) ==
  {i \in 1..Len(seq) :
     \A j \in 1..(i - 1) :
       ~(seq[j].type = seq[i].type /\ lower(seq[j].value) = lower(seq[i].value))}

\* C15: errors_to_submission returns one item per distinct (type, lowercased value)
\* pair among the keyword, headline and description errors, built from the first
\* error of the pair, in order of first occurrence, and nothing for other types
C15_SubmissionDedupe ==
  fn = "errors_to_submission" =>
    LET seq == Eligible(fn_args[1])
        firsts == FirstOfPair(seq)
    IN /\ Len(fn_result) = Cardinality(firsts)
       /\ \A i \in firsts :
            LET item == fn_result[Cardinality({j \in firsts : j <= i})]
            IN /\ item.type = seq[i].type
               /\ item.value = seq[i].value
               /\ item.reason = "Google Ads: " \o seq[i].reason
               /\ item.original_error = seq[i].original_error

\* C15 witness: errors (keyword Gym), (keyword gym), (headline Join Now) gave two
\* items, keyword Gym and headline Join Now
C15_Witness ==
  /\ fn = "errors_to_submission"
  /\ [i \in 1..Len(fn_args[1]) |-> << fn_args[1][i].type, fn_args[1][i].value >>]
       = << << "keyword", "Gym" >>, << "keyword", "gym" >>, << "headline", "Join Now" >> >>
  /\ [i \in 1..Len(fn_result) |-> << fn_result[i].type, fn_result[i].value >>]
       = << << "keyword", "Gym" >>, << "headline", "Join Now" >> >>

----------------------------------------------------------------------------
(* Claims about generate_csv *)

\* the cell of a written line under the column col, "" when the file has no such column
FileCell(line, col) ==
  LET hdr == out_file.lines[1]
      P == {i \in 1..Len(hdr) : hdr[i] = col}
  IN IF P = {} THEN "" ELSE line[CHOOSE i \in P : TRUE]

\* the kind of a written line, by the columns it fills
RowKind(line) ==
  IF FileCell(line, "Keyword") # "" THEN "Keyword"
  ELSE IF FileCell(line, "Ad type") # "" THEN "Ad"
  ELSE IF FileCell(line, "Campaign status") # "" THEN "Campaign"
  ELSE IF FileCell(line, "Ad group status") # "" THEN "Ad group"
  ELSE "?"

\* the data lines of the file (all but the header)
DataLines == SubSeq(out_file.lines, 2, Len(out_file.lines))

FileKinds == [i \in 1..Len(DataLines) |-> RowKind(DataLines[i])]

\* the keywords of the Keyword rows, in file order
FileKeywords ==
  LET ks == SelectSeq(DataLines, LAMBDA l : RowKind(l) = "Keyword")
  IN [i \in 1..Len(ks) |-> FileCell(ks[i], "Keyword")]

Succeeded == g_pc = "returned" /\ result.success

\* the draft keywords that pass the deny-list test
Survivors == SelectSeq(draft_keywords, LAMBDA kw : ~DeniedTrimmed(kw, banned))

ExpectedKinds(n) == << "Campaign", "Ad group" >> \o [i \in 1..n |-> "Keyword"] \o << "Ad" >>

\* C1: after a successful generate_csv no Keyword row of the file holds a keyword
\* that contains a denied term or is contained in one, backfilled keywords included.
C1_NoDeniedKeywordRow ==
  Succeeded =>
    \A i \in 1..Len(FileKeywords) : ~DeniedTrimmed(FileKeywords[i], banned)

\* C2 as stated: Campaign row, Ad-Group row, one Keyword row per surviving draft
\* keyword (at most 10), Ad row, in this order.
C2_AsStated ==
  Succeeded =>
    /\ FileKeywords = Take(Survivors, 10)
    /\ FileKinds = ExpectedKinds(Len(FileKeywords))

\* C2 amended: Campaign row, Ad-Group row, Keyword rows, Ad row, in this order; with
\* 5 or more surviving keywords the Keyword rows are the first 10 survivors in draft
\* order, with fewer than 5 they are the distinct strings among the survivors and
\* the five default keywords, once each.
C2_RowsWritten ==
  Succeeded =>
    /\ FileKinds = ExpectedKinds(Len(FileKeywords))
    /\ Len(Survivors) >= 5 => FileKeywords = Take(Survivors, 10)
    /\ Len(Survivors) < 5 =>
         /\ \A i, j \in 1..Len(FileKeywords) : i # j => FileKeywords[i] # FileKeywords[j]
         /\ Range(FileKeywords) =
              Range(Survivors) \cup
                { g_site.business_name \o " membership", "fitness classes DC",
                  "gym membership DC", "personal training near me", "workout classes DC" }

\* four keywords survived, three of them distinct and one a default: 7 Keyword rows
C2_Witness ==
  /\ Succeeded
  /\ Len(Survivors) = 4
  /\ Len(FileKeywords) = 7

\* a column name that would name the kind of a row
IsRowTypeName(col) == lower(col) \in {"row type", "row_type", "rowtype", "type", "record type"}

\* the columns that only one kind of row fills
KindMarkers == {"Campaign status", "Ad group status", "Keyword", "Ad type"}

\* C18: a file written by generate_csv has no row-type column, no row carries a
\* row-type field, and every data line fills exactly one of the campaign, ad-group,
\* keyword and ad marker columns, which gives its kind.
C18_NoRowTypeColumn ==
  Succeeded =>
    /\ \A i \in 1..Len(out_file.lines[1]) : ~IsRowTypeName(out_file.lines[1][i])
    /\ \A i \in 1..Len(rows) : \A k \in DOMAIN rows[i] : ~IsRowTypeName(k)
    /\ \A i \in 1..Len(DataLines) :
         /\ Cardinality({m \in KindMarkers : FileCell(DataLines[i], m) # ""}) = 1
         /\ RowKind(DataLines[i]) # "?"

\* C18 witness: a written file holding a row of each of the four kinds
C18_Witness ==
  /\ Succeeded
  /\ {FileKinds[i] : i \in 1..Len(FileKinds)} = {"Campaign", "Ad group", "Keyword", "Ad"}
  /\ Len(rows) = Len(DataLines)

\* the position of a column in the priority list, 0 when it is not in it
PriorityIndex(col) ==
  LET P == {i \in 1..Len(priority) : priority[i] = col}
  IN IF P = {} THEN 0 ELSE CHOOSE i \in P : TRUE

\* C19: the header holds exactly the columns some row defines, once each, those of
\* the priority list first and in its order, the others after them in alphabetical
\* order; every data line has one cell per header column, the row's value where the
\* row defines the column and the empty string where it does not.
C19_HeaderAndCells ==
  Succeeded =>
    LET hdr == out_file.lines[1] IN
    /\ Range(hdr) = UNION {DOMAIN rows[i] : i \in 1..Len(rows)}
    /\ \A i, j \in 1..Len(hdr) : i < j =>
         /\ hdr[i] # hdr[j]
         /\ PriorityIndex(hdr[j]) # 0 =>
              /\ PriorityIndex(hdr[i]) # 0
              /\ PriorityIndex(hdr[i]) < PriorityIndex(hdr[j])
         /\ PriorityIndex(hdr[i]) = 0 => StrLess(hdr[i], hdr[j])
    /\ Len(DataLines) = Len(rows)
    /\ \A i \in 1..Len(DataLines) :
         /\ Len(DataLines[i]) = Len(hdr)
         /\ \A k \in 1..Len(hdr) :
              DataLines[i][k] = IF hdr[k] \in DOMAIN rows[i] THEN rows[i][hdr[k]] ELSE ""

\* C19 witness: a written file with keyword and headline columns in which a line
\* has an empty cell under a column its row does not define
C19_Witness ==
  /\ Succeeded
  /\ {"Keyword", "Headline 1", "Description 1"} \subseteq Range(out_file.lines[1])
  /\ \E i \in 1..Len(DataLines) : \E k \in 1..Len(out_file.lines[1]) :
       /\ out_file.lines[1][k] \notin DOMAIN rows[i]
       /\ DataLines[i][k] = ""

\* the Keyword rows a run of generate_csv writes for the inputs of this call when the
\* interpreter runs with the str hash seed given
KeywordsOfRun(seed) ==
  row_keywords(backfill_keywords(filter_keywords(draft_keywords, banned)[1],
                                 g_site.business_name, seed))

\* C20: the Keyword rows written are those every run of generate_csv writes for the
\* same draft, deny-list and business name, in the same order, whatever the
\* interpreter's hash seed, also when fewer than 5 keywords survive and the default
\* keywords are backfilled.
C20_SameKeywordRows ==
  Succeeded => \A seed \in 0..MaxHashSeed : FileKeywords = KeywordsOfRun(seed)

\* C6: when the domain of the url is denied, generate_csv returns success = false with
\* error "Banned domain", has not called the content generator and has no output file.
C6_DomainGate ==
  (g_pc # "idle" /\ filter_by_domains(g_site.website_url, banned_domains)) =>
    /\ g_pc = "returned"
    /\ ~result.success
    /\ result.stats.error = "Banned domain"
    /\ content_calls = 0
    /\ ~out_file.exists

\* generate_csv has returned "Banned domain" for fitclub.com
C6_Witness ==
  /\ g_pc = "returned"
  /\ filter_by_domains(g_site.website_url, banned_domains)
  /\ g_site.website_url = "https://www.fitclub.com/join"
  /\ result.stats.error = "Banned domain"

\* C7: once generate_csv has raised and its caller has ended, no partially written
\* file is left: the file does not exist or holds nothing.
C7_NoPartialFile ==
  w_pc = "dead" => (~out_file.exists \/ out_file.lines = << >>)

----------------------------------------------------------------------------
(* app/error_parser.py *)

ERROR_INDICATORS ==
  << "error", "rejected", "disapproved", "policy violation",
     "not eligible", "violation", "invalid", "too long",
     "restricted", "trademark", "misleading", "unacceptable",
     "failed", "couldn't", "couldn't create", "not allowed",
     "limit exceeded", "character limit", "exceeds" >>

SUCCESS_INDICATORS ==
  << "successfully", "success", "created", "added", "updated",
     "approved", "eligible", "active", "enabled" >>

\* the words that keep a success indicator from clearing a row
hard_words == << "error", "rejected", "disapproved", "violation" >>

\* policy alone as the word of a general error
general_words_short == << "policy" >>

\* the words that make an ad's error a general one
general_words ==
  << "policy", "trademark", "misleading", "restricted", "disapproved", "rejected" >>

SampleSize == 2048
ReasonSplitMin == 10
ReasonMax == 200
OtherValueMax == 100
HeadlineColumns == 15
DescriptionColumns == 4

\* str.count(c) of a one-character c
count(s, c) == Cardinality({i \in 1..Len(s) : CharAt(s, i) = c})

\* what f.read() gives for a file of these lines
RECURSIVE file_text(_)
file_text(lines) ==
  IF lines = << >> THEN "" ELSE lines[1] \o "\n" \o file_text(Tail(lines))

_detect_delimiter(lines) ==
  LET sample == Prefix(file_text(lines), SampleSize)
      commas == count(sample, ",")
      semis == count(sample, ";")
      tabs == count(sample, "\t")
  IN IF tabs > commas /\ tabs > semis THEN "\t"
     ELSE IF semis > commas THEN ";"
     ELSE ","

\* str.split(d) of a one-character d
RECURSIVE split(_, _)
split(s, d) ==
  LET i == Find(s, d) IN
  IF i = 0 THEN << s >>
  ELSE << SubSeq(s, 1, i - 1) >> \o split(SubSeq(s, i + 1, Len(s)), d)

\* the csv reader's row for one line without quote characters: [] for an empty line
csv_row(line, d) == IF line = "" THEN << >> ELSE split(line, d)

\* reader.fieldnames or []: the first row the reader yields, [] for an empty file
fieldnames_or_empty(lines, d) == IF lines = << >> THEN << >> ELSE csv_row(lines[1], d)

\* the greatest index at which x occurs in seq
last_index(seq, x) ==
  CHOOSE i \in 1..Len(seq) : seq[i] = x /\ \A j \in 1..Len(seq) : seq[j] = x => j <= i

\* DictReader.__next__: dict(zip(fieldnames, row)), None for the cells a short row
\* lacks, the cells a long row has too many under the key None
dict_row(names, cells) ==
  LET named == [h \in Range(names) |->
                  IF last_index(names, h) <= Len(cells)
                  THEN cells[last_index(names, h)] ELSE None]
  IN IF Len(cells) > Len(names)
     THEN named @@ (None :> SubSeq(cells, Len(names) + 1, Len(cells)))
     ELSE named

\* row.get(key) or ""
get_or_empty(row, key) ==
  IF key \in DOMAIN row /\ key # None
  THEN (IF row[key] = None THEN "" ELSE row[key])
  ELSE ""

_normalize_header(header) ==
  replace(replace(lower(strip(header)), " ", "_"), "-", "_")

priority_columns ==
  << "results", "result", "error", "error_details",
     "comment", "validation_error", "policy", "status" >>

fallback_words == << "error", "result", "comment", "policy", "validation" >>

\* None when no header qualifies
_find_error_column(headers) ==
  LET norms == [i \in 1..Len(headers) |-> _normalize_header(headers[i])]
      keys == Dedupe(norms)
      orig(n) == headers[last_index(norms, n)]
      exact == {k \in 1..Len(priority_columns) : priority_columns[k] \in Range(norms)}
      loose == {k \in 1..Len(keys) :
                  \E w \in Range(fallback_words) : Contains(keys[k], w)}
  IN IF exact # {}
     THEN orig(priority_columns[CHOOSE k \in exact : \A j \in exact : k <= j])
     ELSE IF loose # {}
     THEN orig(keys[CHOOSE k \in loose : \A j \in loose : k <= j])
     ELSE None

has_row_type_column(headers) ==
  \E i \in 1..Len(headers) : _normalize_header(headers[i]) = "row_type"

\* a success indicator clears the text whatever else it holds
_is_error_row_nohard(error_text) ==
  LET text_lower == lower(error_text) IN
  IF \E s \in Range(SUCCESS_INDICATORS) : Contains(text_lower, s) THEN FALSE
  ELSE IF \E e \in Range(ERROR_INDICATORS) : Contains(text_lower, e) THEN TRUE
  ELSE Len(strip(text_lower)) > 0

_is_error_row(error_text) ==
  LET text_lower == lower(error_text) IN
  IF /\ \E s \in Range(SUCCESS_INDICATORS) : Contains(text_lower, s)
     /\ ~\E e \in Range(hard_words) : Contains(text_lower, e)
  THEN FALSE
  ELSE IF \E e \in Range(ERROR_INDICATORS) : Contains(text_lower, e) THEN TRUE
  ELSE Len(strip(text_lower)) > 0

_extract_reason(error_text) ==
  LET text == strip(error_text)
      i == Find(text, ": ")
      tail == SubSeq(text, i + 2, Len(text))
      picked == IF i > 0 /\ Len(tail) > ReasonSplitMin THEN tail ELSE text
  IN IF Len(picked) > ReasonMax THEN Prefix(picked, ReasonMax) \o "..." ELSE picked

ParsedError(type, value, reason, original_error, row_type) ==
  [type |-> type, value |-> value, reason |-> reason,
   original_error |-> original_error, row_type |-> row_type]

\* the loop shared by _extract_headline_errors and _extract_description_errors
asset_errors(row, error_text, type, column, word, n) ==
  LET error_lower == lower(error_text)
      reason == _extract_reason(error_text)
      is_general == \E w \in Range(general_words) : Contains(error_lower, w)
      val(i) == strip(get_or_empty(row, column \o ToString(i)))
      is_specific(i) == \/ Contains(error_lower, lower(val(i)))
                        \/ Contains(error_lower, word \o ToString(i))
      found[i \in 0..n] ==
        IF i = 0 THEN << >>
        ELSE found[i - 1] \o
             (IF val(i) # "" /\ (is_specific(i) \/ is_general)
              THEN << ParsedError(type, val(i), reason, error_text, "Responsive search ad") >>
              ELSE << >>)
  IN found[n]

_extract_headline_errors(row, error_text) ==
  asset_errors(row, error_text, "headline", "Headline ", "headline ", HeadlineColumns)

_extract_description_errors(row, error_text) ==
  asset_errors(row, error_text, "description", "Description ", "description ",
               DescriptionColumns)

\* the first of the values that is neither None nor empty, "" when there is none
RECURSIVE first_truthy(_, _)
first_truthy(row, keys) ==
  IF keys = << >> THEN ""
  ELSE IF get_or_empty(row, keys[1]) # "" THEN get_or_empty(row, keys[1])
  ELSE first_truthy(row, Tail(keys))

\* row.get(key) or default
get_or(row, key, default) ==
  IF get_or_empty(row, key) # "" THEN get_or_empty(row, key) ELSE default

\* the error text of a row: "" when no error column was found
row_error_text(row, error_col) ==
  IF error_col # None /\ error_col # "" THEN strip(get_or_empty(row, error_col)) ELSE ""

\* how the loop of parse_error_csv counts a row
row_is_error(error_text, has_row_type) ==
  IF error_text = "" /\ ~has_row_type THEN FALSE
  ELSE IF error_text # "" /\ ~_is_error_row(error_text) THEN FALSE
  ELSE error_text # ""

\* what the loop of parse_error_csv appends for a row it counts as an error
row_errors(row, error_text) ==
  LET row_type == strip(first_truthy(row, << "Row Type", "row type", "Type", "type" >>))
      reason == _extract_reason(error_text)
      kw == strip(first_truthy(row, << "Keyword", "keyword" >>))
      shown == IF row_type # "" THEN row_type ELSE "Unknown"
      assets == _extract_headline_errors(row, error_text)
                  \o _extract_description_errors(row, error_text)
  IN IF lower(row_type) \in {"keyword", "keywords"}
     THEN (IF kw # ""
           THEN << ParsedError("keyword", kw, reason, error_text, row_type) >>
           ELSE << >>)
     ELSE IF lower(row_type) \in {"responsive search ad", "ad", "text ad"}
     THEN (IF assets # << >> THEN assets
           ELSE << ParsedError("ad", "[" \o row_type \o "] Ad error", reason,
                               error_text, row_type) >>)
     ELSE IF lower(row_type) = "campaign"
     THEN << ParsedError("campaign",
                         get_or(row, "Campaign", "Unknown campaign"),
                         reason, error_text, row_type) >>
     ELSE IF lower(row_type) \in {"ad group", "ad_group"}
     THEN << ParsedError("ad_group",
                         get_or(row, "Ad group", "Unknown ad group"),
                         reason, error_text, row_type) >>
     ELSE IF kw # ""
     THEN << ParsedError("keyword", kw, reason, error_text, shown) >>
     ELSE << ParsedError("other", Prefix(error_text, OtherValueMax), reason,
                         error_text, shown) >>

\* the classification at the end of parse_error_csv
of_type(errors, type) == SelectSeq(errors, LAMBDA e : e.type = type)

\* other_errors as a list of the types the parser names for rows
other_errors_listed(errors) ==
  SelectSeq(errors, LAMBDA e : e.type \in {"campaign", "ad_group", "other"})

other_errors_of(errors) ==
  SelectSeq(errors, LAMBDA e : e.type \notin {"keyword", "headline", "description"})

\* os.path.basename
basename(path) == SubSeq(path, RFind(path, "/") + 1, Len(path))

\* the least index from k on of a line that is not empty, 0 when there is none
next_row_line(lines, k) ==
  LET P == {i \in k..Len(lines) : lines[i] # ""} IN
  IF P = {} THEN 0 ELSE CHOOSE i \in P : \A j \in P : i <= j

\* parse_error_csv on a path that is no file: FileNotFoundError
ParseMissing ==
  /\ p_pc = "idle"
  /\ ~p_file.exists
  /\ p_pc' = "raised"
  /\ p_exc' = "FileNotFoundError"
  /\ UNCHANGED << p_file, p_delimiter, p_headers, p_error_col, p_has_row_type, p_line,
                  p_trace, all_errors, total_rows, error_rows, success_rows, parse_result,
                  feedbackVars,
                  fnVars, genVars, connVars >>

\* parse_error_csv on a file open() refuses: _detect_delimiter raises
ParseUnreadable ==
  /\ p_pc = "idle"
  /\ p_file.exists
  /\ ~p_file.readable
  /\ p_pc' = "raised"
  /\ p_exc' = "PermissionError"
  /\ UNCHANGED << p_file, p_delimiter, p_headers, p_error_col, p_has_row_type, p_line,
                  p_trace, all_errors, total_rows, error_rows, success_rows, parse_result,
                  feedbackVars,
                  fnVars, genVars, connVars >>

\* parse_error_csv up to the loop: delimiter, headers, error_col, has_row_type
ParseOpen ==
  /\ p_pc = "idle"
  /\ p_file.exists
  /\ p_file.readable
  /\ LET delimiter == _detect_delimiter(p_file.lines)
         headers == fieldnames_or_empty(p_file.lines, delimiter)
     IN /\ p_delimiter' = delimiter
        /\ p_headers' = headers
        /\ p_error_col' = _find_error_column(headers)
        /\ p_has_row_type' = has_row_type_column(headers)
  /\ p_line' = 2
  /\ p_pc' = "rows"
  /\ all_errors' = << >>
  /\ total_rows' = 0
  /\ error_rows' = 0
  /\ success_rows' = 0
  /\ UNCHANGED << p_file, p_exc, p_trace, parse_result, feedbackVars,
                  fnVars, genVars, connVars >>

\* one turn of the loop over the reader
ParseRow ==
  /\ p_pc = "rows"
  /\ next_row_line(p_file.lines, p_line) # 0
  /\ LET k == next_row_line(p_file.lines, p_line)
         row == dict_row(p_headers, csv_row(p_file.lines[k], p_delimiter))
         error_text == row_error_text(row, p_error_col)
         is_error == row_is_error(error_text, p_has_row_type)
     IN /\ p_line' = k + 1
        /\ total_rows' = total_rows + 1
        /\ error_rows' = IF is_error THEN error_rows + 1 ELSE error_rows
        /\ success_rows' = IF is_error THEN success_rows ELSE success_rows + 1
        /\ all_errors' = IF is_error THEN all_errors \o row_errors(row, error_text)
                         ELSE all_errors
        /\ p_trace' = Append(p_trace, [line |-> k, row |-> row,
                                       counted |-> IF is_error THEN "error" ELSE "success",
                                       errors |-> IF is_error THEN row_errors(row, error_text)
                                                  ELSE << >>])
  /\ UNCHANGED << p_file, p_pc, p_exc, p_delimiter, p_headers, p_error_col,
                  p_has_row_type, parse_result, feedbackVars,
                  fnVars, genVars, connVars >>

\* the reader is exhausted: classification and the ParseResult
ParseReturn ==
  /\ p_pc = "rows"
  /\ next_row_line(p_file.lines, p_line) = 0
  /\ parse_result' = [errors |-> all_errors,
                      total_rows |-> total_rows,
                      error_rows |-> error_rows,
                      success_rows |-> success_rows,
                      filename |-> basename(p_file.path),
                      keywords |-> of_type(all_errors, "keyword"),
                      headlines |-> of_type(all_errors, "headline"),
                      descriptions |-> of_type(all_errors, "description"),
                      other_errors |-> other_errors_of(all_errors)]
  /\ p_pc' = "returned"
  /\ UNCHANGED << p_file, p_exc, p_delimiter, p_headers, p_error_col, p_has_row_type,
                  p_line, p_trace, all_errors, total_rows, error_rows, success_rows,
                  feedbackVars,
                  fnVars, genVars, connVars >>

\* the loop of parse_error_csv from line k on, acc holding what it has collected
RECURSIVE parse_rows(_, _, _, _, _, _, _)
parse_rows(lines, headers, delimiter, error_col, has_row_type, k, acc) ==
  IF next_row_line(lines, k) = 0 THEN acc
  ELSE LET n == next_row_line(lines, k)
           row == dict_row(headers, csv_row(lines[n], delimiter))
           error_text == row_error_text(row, error_col)
           is_error == row_is_error(error_text, has_row_type)
       IN parse_rows(lines, headers, delimiter, error_col, has_row_type, n + 1,
                     [errors |-> IF is_error THEN acc.errors \o row_errors(row, error_text)
                                 ELSE acc.errors,
                      total_rows |-> acc.total_rows + 1,
                      error_rows |-> IF is_error THEN acc.error_rows + 1 ELSE acc.error_rows,
                      success_rows |-> IF is_error THEN acc.success_rows
                                       ELSE acc.success_rows + 1])

\* parse_error_csv as one call: the exception it raises, or the ParseResult
parse_error_csv(f) ==
  IF ~f.exists THEN [raised |-> TRUE, exc |-> "FileNotFoundError"]
  ELSE IF ~f.readable THEN [raised |-> TRUE, exc |-> "PermissionError"]
  ELSE LET delimiter == _detect_delimiter(f.lines)
           headers == fieldnames_or_empty(f.lines, delimiter)
           acc == parse_rows(f.lines, headers, delimiter, _find_error_column(headers),
                             has_row_type_column(headers), 2,
                             [errors |-> << >>, total_rows |-> 0, error_rows |-> 0,
                              success_rows |-> 0])
       IN [raised |-> FALSE,
           value |-> [errors |-> acc.errors,
                      total_rows |-> acc.total_rows,
                      error_rows |-> acc.error_rows,
                      success_rows |-> acc.success_rows,
                      filename |-> basename(f.path),
                      keywords |-> of_type(acc.errors, "keyword"),
                      headlines |-> of_type(acc.errors, "headline"),
                      descriptions |-> of_type(acc.errors, "description"),
                      other_errors |-> other_errors_of(acc.errors)]]

----------------------------------------------------------------------------
(* parse_error_csv on bounded files *)

MaxRows == 2

\* header rows, each with the delimiter the file is written with
HeaderLayouts ==
  << [d |-> ",", cells |-> << "Row Type", "Campaign", "Ad group", "Keyword", "Headline 1",
                              "Headline 2", "Description 1", "Results" >>],
     [d |-> "\t", cells |-> << "Row Type", "Campaign", "Ad group", "Keyword", "Headline 1",
                               "Headline 2", "Description 1", "Results" >>],
     [d |-> ";", cells |-> << "Type", "Keyword", "Campaign", "Headline 1", "Ad-Status",
                              " Error Message " >>],
     [d |-> ",", cells |-> << "Keyword", "Status" >>],
     [d |-> ",", cells |-> << "Row Type", "Keyword", "Campaign" >>],
     [d |-> ";", cells |-> << "Keyword", "Headline 1" >>],
     [d |-> ",", cells |-> << "Keyword", "Comment", "comment" >>],
     [d |-> ",", cells |-> << "Keyword", "Ad status" >>] >>

Cells(type, campaign, ad_group, keyword, h1, h2, d1, text) ==
  ("Row Type" :> type) @@ ("Type" :> type) @@ ("Campaign" :> campaign)
  @@ ("Ad group" :> ad_group) @@ ("Keyword" :> keyword) @@ ("Headline 1" :> h1)
  @@ ("Headline 2" :> h2) @@ ("Description 1" :> d1) @@ ("Results" :> text)
  @@ ("Status" :> text) @@ (" Error Message " :> text) @@ ("comment" :> text)
  @@ ("Ad status" :> text)

\* a rejection text of more than 200 characters after its "Policy violation: "
LongRejection ==
  "Policy violation: the keyword uses a trademark restricted in the target country. "
  \o "Remove the trademark or request an authorization from its owner. "
  \o "Keywords with restricted trademarks cannot run until the request is approved by the policy team."

\* upload rows of every kind the parser tells apart
RowPool ==
  << Cells("Keyword", "", "", "cheap gym", "", "", "",
           "Policy violation: trademark in keyword text"),
     Cells("Campaign", "FitClub - Search", "", "", "", "", "", "Successfully created"),
     Cells("Responsive search ad", "", "", "", "Nike Shoes Sale", "Great Deals",
           "Shop the latest Nike shoes today.", "Disapproved: trademark"),
     Cells("Keyword", "", "", "yoga", "", "", "", ""),
     Cells("Ad", "", "", "", "Join Now", "", "", "Pending review"),
     Cells("Ad group", "", "Main", "", "", "", "", "Created with error"),
     Cells("keyword", "", "", "hot yoga", "", "", "", " Not eligible "),
     Cells("Sitelink", "", "", "", "", "", "", "Invalid value"),
     Cells("Campaign", "", "", "", "", "", "", "Rejected"),
     Cells("Text ad", "", "", "", "Join Now", "Free Trial", "Try a class on us.",
           "Headline 2 too long"),
     Cells("Keyword", "", "", " ", "", "", "", "Invalid"),
     Cells("Keyword", "", "", "gym membership", "", "", "", LongRejection) >>

RECURSIVE join(_, _)
join(cells, d) ==
  IF cells = << >> THEN ""
  ELSE IF Len(cells) = 1 THEN cells[1]
  ELSE cells[1] \o d \o join(Tail(cells), d)

\* the line a row of the pool makes under a header row
line_of(cells, layout) ==
  join([i \in 1..Len(layout.cells) |-> Get(cells, layout.cells[i], "")], layout.d)

UploadPath == "/home/farmer/Downloads/upload_results.csv"

TextFile(lines) ==
  [path |-> UploadPath, exists |-> TRUE, readable |-> TRUE, lines |-> lines]

\* a header row and up to MaxRows rows of the pool
TableFiles ==
  { TextFile(<< join(HeaderLayouts[h].cells, HeaderLayouts[h].d) >>
             \o [i \in 1..Len(pick) |-> line_of(RowPool[pick[i]], HeaderLayouts[h])]) :
      h \in 1..Len(HeaderLayouts),
      pick \in UNION {[1..n -> 1..Len(RowPool)] : n \in 0..MaxRows} }

\* files that are no table: absent, unreadable, empty, starting with an empty line,
\* with short and long rows and empty lines between rows
OddFiles ==
  { [path |-> UploadPath, exists |-> FALSE, readable |-> FALSE, lines |-> << >>],
    [path |-> UploadPath, exists |-> TRUE, readable |-> FALSE, lines |-> << >>],
    TextFile(<< >>),
    TextFile(<< "" >>),
    TextFile(<< "", "Keyword,Status", "cheap gym,Disapproved" >>),
    TextFile(<< "cheap gym", "hot yoga" >>),
    TextFile(<< "Keyword,Status", "cheap gym", "", "cheap gym,Disapproved,extra", "",
                "yoga,Approved" >>) }

ParseFiles == TableFiles \cup OddFiles

InitParse ==
  /\ p_file \in ParseFiles
  /\ ParseIdle
  /\ FeedbackIdle
  /\ InitFn
  /\ GenAtRest
  /\ ConnAtRest

NextParse == ParseMissing \/ ParseUnreadable \/ ParseOpen \/ ParseRow \/ ParseReturn

SpecParse == InitParse /\ [][NextParse]_vars

----------------------------------------------------------------------------
(* app/api_client.py: SheetAPI, and the connection threads of app/gui.py *)

CacheTtl == 60

\* what the sheet holds
ServerVersion == "1.4"
ServerBanned == << "yoga", "gym" >>
ServerBannedDomains == << "FitClub.com" >>

\* the answer of the Apps Script to a GET that gets through
server_answer(action) ==
  CASE action = "get_version" -> [status |-> "ok", version |-> ServerVersion]
    [] action = "get_sites" -> [status |-> "ok", sites |-> Sites]
    [] action = "get_config" -> [status |-> "ok"] @@ ConfigPool[2]
    [] action = "get_banned" -> [status |-> "ok", banned |-> ServerBanned]
    [] action = "get_banned_domains" ->
         [status |-> "ok", banned_domains |-> ServerBannedDomains]

\* the messages of the except branches of _get, in English
ErrorMessages == {"Timeout: the server does not answer", "No internet connection"}

\* SheetAPI._get: the server's answer, or an error dict when the request fails
get_outcomes(action) ==
  {server_answer(action)} \cup {[status |-> "error", message |-> m] : m \in ErrorMessages}

\* action + json.dumps(params or {}, sort_keys=True) for a call without params
cache_key(action) == action \o "{}"

cache_hit(store, action, now) ==
  /\ cache_key(action) \in DOMAIN store
  /\ now - store[cache_key(action)].time < CacheTtl

\* what _get_cached may return
get_cached_outcomes(store, action, now) ==
  IF cache_hit(store, action, now) THEN {store[cache_key(action)].answer}
  ELSE get_outcomes(action)

\* a cache that also keeps error answers
cache_after_all(store, action, now, answer) ==
  IF cache_hit(store, action, now) THEN store
  ELSE (cache_key(action) :> [answer |-> answer, time |-> now]) @@ store

\* the cache after _get_cached returned answer
cache_after(store, action, now, answer) ==
  IF cache_hit(store, action, now) \/ answer.status = "error" THEN store
  ELSE (cache_key(action) :> [answer |-> answer, time |-> now]) @@ store

\* get_sites, get_banned, get_banned_domains: answer.get(key, [])
get_list(answer, key) == Get(answer, key, << >>)

get_config(answer) ==
  IF answer.status = "error" THEN << >>
  ELSE LET cfg == [k \in DOMAIN answer \ {"status"} |-> answer[k]]
       IN IF DOMAIN cfg # {} THEN cfg ELSE answer

\* the key of sync_all's dict that a getter fills
sync_key(action) == SubSeq(action, Len("get_") + 1, Len(action))

getter_value(action, answer) ==
  IF action = "get_config" THEN get_config(answer)
  ELSE get_list(answer, sync_key(action))

\* _startup_sequence: the do_startup thread, with a new SheetAPI
StartupSequence ==
  /\ c_pc = "none"
  /\ c_kind = None
  /\ c_kind' = "startup"
  /\ c_pc' = "test_connection"
  /\ cache' = << >>
  /\ sync_data' = << >>
  /\ req_failed' = {}
  /\ UNCHANGED << tag_locked, accountVars, gistVars, cacheVars, pickVars, sites, is_connected, c_msg, clock, conn_info,
                  fnVars, genVars, parseVars >>

\* _sync: the do_sync thread, with a new SheetAPI
Sync ==
  /\ c_pc = "none"
  /\ c_kind # None
  /\ tag_locked \/ _is_dev_mode(farmer)
  /\ c_kind' = "sync"
  /\ c_pc' = "test_connection"
  /\ cache' = << >>
  /\ sync_data' = << >>
  /\ req_failed' = {}
  /\ UNCHANGED << tag_locked, accountVars, gistVars, cacheVars, pickVars, sites, is_connected, c_msg, clock, conn_info,
                  fnVars, genVars, parseVars >>

\* _sync without a locked tag and outside dev mode: a message, nothing else
SyncRefused ==
  /\ ~(tag_locked \/ _is_dev_mode(farmer))
  /\ UNCHANGED vars

\* _refresh_sites: the do_refresh thread, clear_cache done
RefreshSites ==
  /\ c_pc = "none"
  /\ c_kind # None
  /\ c_kind' = "refresh"
  /\ c_pc' = "get_sites"
  /\ cache' = << >>
  /\ sync_data' = << >>
  /\ req_failed' = {}
  /\ UNCHANGED << tag_locked, accountVars, gistVars, cacheVars, pickVars, sites, is_connected, c_msg, clock, conn_info,
                  fnVars, genVars, parseVars >>

\* test_connection; when it succeeds, sync_all begins with clear_cache
TestConnection ==
  /\ c_pc = "test_connection"
  /\ \E answer \in get_outcomes("get_version") :
       IF answer.status = "error"
       THEN /\ c_msg' = answer.message
            /\ c_pc' = "connect_fail"
            /\ req_failed' = req_failed \cup {"get_version"}
            /\ UNCHANGED cache
       ELSE /\ c_msg' = IF c_kind = "sync" THEN "Synchronised"
                        ELSE "Connected! Version: " \o answer.version
            /\ c_pc' = "get_sites"
            /\ cache' = << >>
            /\ UNCHANGED req_failed
  /\ UNCHANGED << tag_locked, accountVars, gistVars, cacheVars, pickVars, sites, is_connected, c_kind, sync_data, clock, conn_info,
                  fnVars, genVars, parseVars >>

\* what follows a getter in the thread that runs
after_getter(kind, action) ==
  IF kind = "refresh" THEN "sites_refreshed"
  ELSE CASE action = "get_sites" -> "get_config"
         [] action = "get_config" -> "get_banned"
         [] action = "get_banned" -> "get_banned_domains"
         [] action = "get_banned_domains" -> "connected"

\* one getter of sync_all, or the get_sites of do_refresh
Getter ==
  /\ c_pc \in {"get_sites", "get_config", "get_banned", "get_banned_domains"}
  /\ \E answer \in get_cached_outcomes(cache, c_pc, clock) :
       /\ cache' = cache_after(cache, c_pc, clock, answer)
       /\ sync_data' = (sync_key(c_pc) :> getter_value(c_pc, answer)) @@ sync_data
       /\ req_failed' = IF answer.status = "error" THEN req_failed \cup {c_pc}
                        ELSE req_failed
  /\ c_pc' = after_getter(c_kind, c_pc)
  /\ UNCHANGED << tag_locked, accountVars, gistVars, cacheVars, pickVars, sites, is_connected, c_kind, c_msg, clock, conn_info,
                  fnVars, genVars, parseVars >>

\* _on_connected
OnConnected ==
  /\ c_pc = "connected"
  /\ sites' = sync_data["sites"]
  /\ config' = sync_data["config"]
  /\ banned' = sync_data["banned"]
  /\ banned_domains' = sync_data["banned_domains"]
  /\ is_connected' = TRUE
  /\ conn_info' = [status |-> "connected", version |-> c_msg,
                   sites |-> Len(sync_data["sites"]),
                   banned |-> Len(sync_data["banned"]),
                   banned_domains |-> Len(sync_data["banned_domains"])]
  /\ c_pc' = "none"
  /\ UNCHANGED << hash_seed, farmer, is_generating, workerVars, callVars, tag_locked, accountVars, gistVars, cacheVars, pickVars,
                  c_kind, c_msg, sync_data, req_failed, cache, clock, fnVars, parseVars >>

\* _on_connect_fail
OnConnectFail ==
  /\ c_pc = "connect_fail"
  /\ is_connected' = FALSE
  /\ conn_info' = [status |-> "offline", error |-> c_msg]
  /\ c_pc' = "none"
  /\ UNCHANGED << tag_locked, accountVars, gistVars, cacheVars, pickVars, sites, c_kind, c_msg, sync_data, req_failed, cache, clock,
                  fnVars, genVars, parseVars >>

\* _on_sites_refreshed
OnSitesRefreshed ==
  /\ c_pc = "sites_refreshed"
  /\ sites' = sync_data["sites"]
  /\ c_pc' = "none"
  /\ UNCHANGED << tag_locked, accountVars, gistVars, cacheVars, pickVars, is_connected, c_kind, c_msg, sync_data, req_failed, cache,
                  clock, conn_info, fnVars, genVars, parseVars >>

MaxClock == 60
TickSeconds == 30

\* time passes
Tick ==
  /\ clock < MaxClock
  /\ clock' = clock + TickSeconds
  /\ UNCHANGED << tag_locked, accountVars, gistVars, cacheVars, pickVars, sites, is_connected, c_pc, c_kind, c_msg, sync_data,
                  req_failed, cache, conn_info, fnVars, genVars, parseVars >>

\* the application as App.__init__ leaves it, with the settings on disk
InitConn ==
  /\ hash_seed = 0
  /\ \E saved \in {<< "", FALSE >>, << "anna", TRUE >>, << "_dev_", FALSE >>} :
       /\ farmer = saved[1]
       /\ tag_locked = saved[2]
  /\ config = << >>
  /\ banned = << >>
  /\ banned_domains = << >>
  /\ is_generating = FALSE
  /\ WorkerIdle
  /\ CallIdle
  /\ sites = << >>
  /\ is_connected = FALSE
  /\ ConnIdle
  /\ AccountBuilt
  /\ GistNew
  /\ ApiNew
  /\ NoPicks
  /\ InitFn
  /\ ParseAtRest

NextConn ==
  \/ StartupSequence
  \/ Sync
  \/ SyncRefused
  \/ RefreshSites
  \/ TestConnection
  \/ Getter
  \/ OnConnected
  \/ OnConnectFail
  \/ OnSitesRefreshed
  \/ Tick

SpecConn == InitConn /\ [][NextConn]_vars

----------------------------------------------------------------------------
(* app/api_client.py: calls of SheetAPI._get_cached and SheetAPI.clear_cache *)

MaxCalls == 4

\* the getters called in this specification
CachedActions == {"get_sites", "get_banned"}

\* _get_cached(action): the cached answer while it is fresh, else a request, whose
\* answer is stored unless it is an error
GetCached ==
  /\ Len(api_calls) < MaxCalls
  /\ \E action \in CachedActions :
       \E answer \in get_cached_outcomes(cache, action, clock) :
         /\ cache' = cache_after(cache, action, clock, answer)
         /\ api_calls' = Append(api_calls,
                                [kind |-> "get", action |-> action, now |-> clock,
                                 requested |-> ~cache_hit(cache, action, clock),
                                 answer |-> answer])
  /\ UNCHANGED << fnVars, genVars, parseVars, tag_locked, sites, is_connected, c_pc,
                  c_kind, c_msg, sync_data, req_failed, clock, conn_info, accountVars,
                  gistVars, pickVars >>

\* clear_cache, also the first statement of sync_all
ClearCache ==
  /\ Len(api_calls) < MaxCalls
  /\ cache' = << >>
  /\ api_calls' = Append(api_calls, [kind |-> "clear"])
  /\ UNCHANGED << fnVars, genVars, parseVars, tag_locked, sites, is_connected, c_pc,
                  c_kind, c_msg, sync_data, req_failed, clock, conn_info, accountVars,
                  gistVars, pickVars >>

\* a SheetAPI as __init__ leaves it
InitCache == InitFn /\ GenAtRest /\ ParseAtRest /\ ConnAtRest

NextCache == GetCached \/ ClearCache \/ Tick

SpecCache == InitCache /\ [][NextCache]_vars

----------------------------------------------------------------------------
(* app/api_client.py: GistResolver, with app/key_codec.py and app/constants.py *)

FALLBACK_SCRIPT_URL ==
  "https://script.google.com/macros/s/AKfycbz8GurLgDgaevqszmzETaSjPUJZbpVAwnUmd8fhS30BF2JrAngyj14HL5W-sNRtUX20Mw/exec"
FALLBACK_GEMINI_KEY_ENC == ""
FALLBACK_GEMINI_MODEL == "gemini-2.5-flash"

\* decode_key on the keys a Gist of this model holds: base64 decoded and reversed,
\* "" where the base64 decoding or the utf-8 decoding raises
decode_key(encoded_key) ==
  CASE encoded_key = "QnlTYXpJQQ==" -> "AIzaSyB"
    [] OTHER -> ""

smart_decode(value) ==
  IF value = "" THEN ""
  ELSE IF StartsWith(value, "AIzaSy") THEN value
  ELSE IF StartsWith(decode_key(value), "AIzaSy") THEN decode_key(value)
  ELSE value

\* the config fetch_config builds from the JSON object of the Gist
gist_config_of(data) ==
  LET enc == strip(Get(data, "gemini_key_enc", ""))
      raw_key == IF enc = "" THEN strip(Get(data, "gemini_key", "")) ELSE enc
  IN [script_url |-> strip(Get(data, "script_url", "")),
      gemini_key |-> smart_decode(raw_key),
      gemini_model |-> strip(Get(data, "gemini_model", "")),
      source |-> "gist"]

fallback_config ==
  [script_url |-> FALLBACK_SCRIPT_URL,
   gemini_key |-> smart_decode(FALLBACK_GEMINI_KEY_ENC),
   gemini_model |-> FALLBACK_GEMINI_MODEL,
   source |-> "fallback"]

\* a resolver that remembers every config the Gist gave, also one without a script_url
cache_after_fetch_always(cached, fetched) == fetched

\* _cached_config after a fetch that gave fetched
cache_after_fetch(cached, fetched) ==
  IF fetched.script_url # "" THEN fetched ELSE cached

\* what fetch_config returns when the cached config or the fallback answers
config_without_gist(cached) ==
  IF Get(cached, "script_url", "") # ""
  THEN [cached EXCEPT !.source = "cached"]
  ELSE fallback_config

MaxFetches == 3

\* what the Gist may hold
GistData ==
  { [script_url |-> "https://a.example/exec", gemini_key |-> "AIzaSyA",
     gemini_model |-> "gemini-a"],
    [script_url |-> " https://b.example/exec ", gemini_key_enc |-> "QnlTYXpJQQ==",
     gemini_key |-> "plainkey", gemini_model |-> " gemini-b "],
    [script_url |-> "", gemini_key |-> "AIzaSyC", gemini_model |-> "gemini-c"],
    [script_url |-> "  ", gemini_key |-> "abcd"],
    [gemini_model |-> "gemini-e"] }

\* what a request to the Gist gives: an exception (no answer, an error status, no
\* JSON), or its JSON object
GistAnswers == {[ok |-> FALSE]} \cup {[ok |-> TRUE, data |-> d] : d \in GistData}

\* fetch_config, the Gist giving a JSON object
FetchConfig ==
  /\ Len(gist_answers) < MaxFetches
  /\ \E answer \in GistAnswers :
       /\ answer.ok
       /\ gist_answers' = Append(gist_answers, answer)
       /\ LET fetched == gist_config_of(answer.data) IN
          /\ cached_config' = cache_after_fetch(cached_config, fetched)
          /\ gist_config' = IF fetched.script_url # "" THEN fetched
                            ELSE config_without_gist(cached_config)
  /\ UNCHANGED << fnVars, genVars, parseVars, tag_locked, sites, is_connected, c_pc,
                  c_kind, c_msg, sync_data, req_failed, cache, clock, conn_info,
                  accountVars, cacheVars, pickVars >>

\* fetch_config, the request or the decoding of its answer raising
FetchConfigFails ==
  /\ Len(gist_answers) < MaxFetches
  /\ gist_answers' = Append(gist_answers, [ok |-> FALSE])
  /\ gist_config' = config_without_gist(cached_config)
  /\ UNCHANGED << cached_config, fnVars, genVars, parseVars, tag_locked, sites,
                  is_connected, c_pc, c_kind, c_msg, sync_data, req_failed, cache, clock,
                  conn_info, accountVars, cacheVars, pickVars >>

InitGist == InitFn /\ GenAtRest /\ ParseAtRest /\ ConnAtRest

NextGist == FetchConfig \/ FetchConfigFails

SpecGist == InitGist /\ [][NextGist]_vars

----------------------------------------------------------------------------
(* app/gui.py: the account tab *)

TagMin == 2

\* what the user may have typed in the tag entry when the save button is pressed
TagInputs == {"", " ", "b", " bob ", "_DEV_"}

\* the view _lock_tag leaves the account tab in, with the input left showing
view_after_lock_input == "input"

\* the view _lock_tag leaves the account tab in: _show_locked_tag
view_after_lock == "locked"

\* _lock_tag with a tag of two characters or more, confirmed in the dialog. Not
\* connected, it runs _startup_sequence; the do_startup thread it starts takes the
\* place of one still running, whose callback the later callback overrides.
LockTag ==
  /\ account_view = "input"
  /\ \E typed \in TagInputs, confirm \in BOOLEAN :
       LET tag == strip(typed) IN
       /\ tag # ""
       /\ Len(tag) >= TagMin
       /\ confirm
       /\ farmer' = tag
  /\ tag_locked' = TRUE
  /\ account_view' = view_after_lock
  /\ IF ~is_connected
     THEN /\ c_kind' = "startup"
          /\ c_pc' = "test_connection"
          /\ cache' = << >>
          /\ sync_data' = << >>
          /\ req_failed' = {}
     ELSE UNCHANGED << c_kind, c_pc, cache, sync_data, req_failed >>
  /\ UNCHANGED << hash_seed, config, banned, banned_domains, is_generating, workerVars,
                  callVars, sites, is_connected, c_msg, clock, conn_info, fnVars,
                  parseVars, gistVars, cacheVars, pickVars >>

\* _lock_tag with an empty or too short tag, or not confirmed: a dialog, nothing else
LockTagRefused ==
  /\ account_view = "input"
  /\ \E typed \in TagInputs, confirm \in BOOLEAN :
       strip(typed) = "" \/ Len(strip(typed)) < TagMin \/ ~confirm
  /\ UNCHANGED vars

\* _enter_dev_mode, the button of the tag input view
EnterDevMode ==
  /\ account_view = "input"
  /\ farmer' = "_DEV_"
  /\ tag_locked' = FALSE
  /\ account_view' = "dev"
  /\ UNCHANGED << hash_seed, config, banned, banned_domains, is_generating, workerVars,
                  callVars, sites, is_connected, c_pc, c_kind, c_msg, sync_data,
                  req_failed, cache, clock, conn_info, fnVars, parseVars, gistVars, cacheVars, pickVars >>

\* _exit_dev_mode, the button of the dev tag view
ExitDevMode ==
  /\ account_view = "dev"
  /\ farmer' = ""
  /\ tag_locked' = FALSE
  /\ account_view' = "input"
  /\ UNCHANGED << hash_seed, config, banned, banned_domains, is_generating, workerVars,
                  callVars, sites, is_connected, c_pc, c_kind, c_msg, sync_data,
                  req_failed, cache, clock, conn_info, fnVars, parseVars, gistVars, cacheVars, pickVars >>

\* _save_settings_from_ui: only the output folder is stored
SaveSettingsFromUi == UNCHANGED vars

\* the application as App.__init__ leaves it, with the settings on disk
InitAccount ==
  /\ hash_seed = 0
  /\ \E saved \in {<< "", FALSE >>, << "anna", TRUE >>, << "_DEV_", FALSE >>,
                    << "carl", FALSE >>} :
       /\ farmer = saved[1]
       /\ tag_locked = saved[2]
  /\ config = << >>
  /\ banned = << >>
  /\ banned_domains = << >>
  /\ is_generating = FALSE
  /\ WorkerIdle
  /\ CallIdle
  /\ sites = << >>
  /\ is_connected = FALSE
  /\ ConnIdle
  /\ AccountBuilt
  /\ GistNew
  /\ ApiNew
  /\ NoPicks
  /\ InitFn
  /\ ParseAtRest

NextAccount ==
  \/ LockTag
  \/ LockTagRefused
  \/ EnterDevMode
  \/ ExitDevMode
  \/ SaveSettingsFromUi
  \/ StartupSequence
  \/ Sync
  \/ SyncRefused
  \/ TestConnection
  \/ Getter
  \/ OnConnected
  \/ OnConnectFail

SpecAccount == InitAccount /\ [][NextAccount]_vars

----------------------------------------------------------------------------
(* app/gui.py: the feedback tab *)

MaxPosts == 2

\* _on_csv_parsed, posted by do_parse when parse_error_csv returned
OnCsvParsed ==
  /\ p_pc = "returned"
  /\ p_pc' = "delivered"
  /\ feedback_parsed' = << parse_result >>
  /\ LET total_to_ban == Len(parse_result.keywords) + Len(parse_result.headlines)
                           + Len(parse_result.descriptions)
     IN /\ submit_enabled' = (total_to_ban > 0)
        /\ feedback_status' = IF total_to_ban > 0 THEN "ready to send" ELSE "no errors found"
  /\ UNCHANGED << p_file, p_exc, p_delimiter, p_headers, p_error_col, p_has_row_type,
                  p_line, p_trace, all_errors, total_rows, error_rows, success_rows,
                  parse_result, s_pc, s_result, ad_posts, fnVars, genVars, connVars >>

\* _on_csv_parse_error, posted by do_parse when parse_error_csv raised
OnCsvParseError ==
  /\ p_pc = "raised"
  /\ p_pc' = "delivered"
  /\ feedback_parsed' = << >>
  /\ submit_enabled' = FALSE
  /\ feedback_status' = ""
  /\ UNCHANGED << p_file, p_exc, p_delimiter, p_headers, p_error_col, p_has_row_type,
                  p_line, p_trace, all_errors, total_rows, error_rows, success_rows,
                  parse_result, s_pc, s_result, ad_posts, fnVars, genVars, connVars >>

\* _submit_ad_errors with the confirmation given: the do_submit thread starts
SubmitAdErrors ==
  /\ submit_enabled
  /\ Len(ad_posts) < MaxPosts
  /\ feedback_parsed # << >>
  /\ is_connected
  /\ strip(farmer) # ""
  /\ submit_enabled' = FALSE
  /\ feedback_status' = "sending"
  /\ s_pc' = "submit"
  /\ UNCHANGED << p_file, p_pc, p_exc, p_delimiter, p_headers, p_error_col,
                  p_has_row_type, p_line, p_trace, all_errors, total_rows, error_rows,
                  success_rows, parse_result, feedback_parsed, s_result, ad_posts,
                  fnVars, genVars, connVars >>

\* _submit_ad_errors without a connection or without a tag: a warning, nothing else
SubmitRefused ==
  /\ submit_enabled
  /\ feedback_parsed # << >>
  /\ ~is_connected \/ strip(farmer) = ""
  /\ UNCHANGED vars

\* what the sheet may answer to submit_ad_errors, or the error dict of _post
SubmitAnswers ==
  { [status |-> "ok", auto_banned |-> 0],
    [status |-> "ok", auto_banned |-> 1],
    [status |-> "error", message |-> "Timeout: the server does not answer"] }

\* do_submit: errors_to_submission(parsed, action="auto_ban"), then submit_ad_errors
DoSubmit ==
  /\ s_pc = "submit"
  /\ ad_posts' = Append(ad_posts,
                        [action |-> "submit_ad_errors",
                         farmer |-> strip(farmer),
                         errors |-> errors_to_submission(feedback_parsed[1].errors,
                                                         "auto_ban")])
  /\ s_result' \in SubmitAnswers
  /\ s_pc' = "done"
  /\ UNCHANGED << p_file, p_pc, p_exc, p_delimiter, p_headers, p_error_col,
                  p_has_row_type, p_line, p_trace, all_errors, total_rows, error_rows,
                  success_rows, parse_result, feedback_parsed, submit_enabled,
                  feedback_status, fnVars, genVars, connVars >>

\* _on_submit_done
OnSubmitDone ==
  /\ s_pc = "done"
  /\ IF s_result.status = "ok"
     THEN /\ feedback_status' = "sent"
          /\ s_pc' = IF s_result.auto_banned > 0 THEN "refresh_banned" ELSE "none"
          /\ UNCHANGED submit_enabled
     ELSE /\ feedback_status' = "send failed"
          /\ s_pc' = "none"
          /\ submit_enabled' = TRUE
  /\ UNCHANGED << p_file, p_pc, p_exc, p_delimiter, p_headers, p_error_col,
                  p_has_row_type, p_line, p_trace, all_errors, total_rows, error_rows,
                  success_rows, parse_result, feedback_parsed, s_result, ad_posts,
                  fnVars, genVars, connVars >>

\* the do_refresh of _on_submit_done: clear_cache, get_banned, then App.banned is set;
\* a failed request gives the empty list
RefreshBanned ==
  /\ s_pc = "refresh_banned"
  /\ banned' \in BannedLists
  /\ s_pc' = "none"
  /\ UNCHANGED << hash_seed, farmer, config, banned_domains, is_generating, workerVars,
                  callVars, p_file, p_pc, p_exc, p_delimiter, p_headers, p_error_col,
                  p_has_row_type, p_line, p_trace, all_errors, total_rows, error_rows,
                  success_rows, parse_result, feedback_parsed, submit_enabled,
                  feedback_status, s_result, ad_posts, fnVars, connVars >>

\* the files picked in the feedback tab: those with the full set of columns, and
\* those that are no table
FeedbackFiles ==
  {f \in ParseFiles :
     f.lines # << >> => f.lines[1] = join(HeaderLayouts[1].cells, HeaderLayouts[1].d)}
  \cup OddFiles

\* the application with the feedback tab open and a file picked
InitFeedback ==
  /\ p_file \in FeedbackFiles
  /\ ParseIdle
  /\ FeedbackIdle
  /\ hash_seed = 0
  /\ \E saved \in {<< "anna", TRUE >>, << "", TRUE >>, << "anna", FALSE >>} :
       /\ farmer = saved[1]
       /\ is_connected = saved[2]
  /\ tag_locked = (farmer # "")
  /\ config = << >>
  /\ banned = << >>
  /\ banned_domains = << >>
  /\ is_generating = FALSE
  /\ WorkerIdle
  /\ CallIdle
  /\ sites = << >>
  /\ ConnIdle
  /\ AccountBuilt
  /\ GistNew
  /\ ApiNew
  /\ NoPicks
  /\ InitFn

NextFeedback ==
  \/ ParseMissing
  \/ ParseUnreadable
  \/ ParseOpen
  \/ ParseRow
  \/ ParseReturn
  \/ OnCsvParsed
  \/ OnCsvParseError
  \/ SubmitAdErrors
  \/ SubmitRefused
  \/ DoSubmit
  \/ OnSubmitDone
  \/ RefreshBanned

SpecFeedback == InitFeedback /\ [][NextFeedback]_vars

----------------------------------------------------------------------------
(* app/gui.py: files picked one after the other in the feedback tab *)

MaxPicks == 2

\* the files the user picks
PickFiles ==
  { [path |-> "/home/farmer/Downloads/monday.csv", exists |-> TRUE, readable |-> TRUE,
     lines |-> << "Keyword,Status", "cheap gym,Disapproved", "yoga,Approved" >>],
    [path |-> "/home/farmer/Downloads/tuesday.csv", exists |-> TRUE, readable |-> TRUE,
     lines |-> << "Keyword,Status", "hot yoga,Rejected: policy" >>],
    [path |-> "/home/farmer/Downloads/clean.csv", exists |-> TRUE, readable |-> TRUE,
     lines |-> << "Keyword,Status", "pilates,Approved" >>],
    [path |-> "/home/farmer/Downloads/gone.csv", exists |-> FALSE, readable |-> FALSE,
     lines |-> << >>] }

\* _pick_error_csv with a file chosen: the name is shown and a do_parse thread starts
PickErrorCsv ==
  /\ Len(picks) < MaxPicks
  /\ \E f \in PickFiles :
       /\ feedback_filepath' = f.path
       /\ picks' = Append(picks, [file |-> f, pc |-> "parsing", outcome |-> << >>,
                                  seq |-> 0])
  /\ UNCHANGED << posted, fnVars, genVars, parseVars, tag_locked, sites, is_connected,
                  c_pc, c_kind, c_msg, sync_data, req_failed, cache, clock, conn_info,
                  accountVars, gistVars, cacheVars >>

\* _pick_error_csv with the dialog cancelled
PickCancelled == UNCHANGED vars

\* a do_parse thread ends: parse_error_csv has returned or raised, and the callback
\* is posted to the event loop
DoParse ==
  /\ \E i \in 1..Len(picks) :
       /\ picks[i].pc = "parsing"
       /\ picks' = [picks EXCEPT ![i] = [@ EXCEPT !.pc = "posted",
                                                  !.outcome = << parse_error_csv(picks[i].file) >>,
                                                  !.seq = posted + 1]]
  /\ posted' = posted + 1
  /\ UNCHANGED << feedback_filepath, fnVars, genVars, parseVars, tag_locked, sites,
                  is_connected, c_pc, c_kind, c_msg, sync_data, req_failed, cache, clock,
                  conn_info, accountVars, gistVars, cacheVars >>

\* the callback the event loop runs next: the one posted first
NextPosted(i) ==
  /\ picks[i].pc = "posted"
  /\ \A j \in 1..Len(picks) : picks[j].pc = "posted" => picks[i].seq <= picks[j].seq

\* _on_csv_parsed for the parse that returned
DeliverParsed ==
  /\ \E i \in 1..Len(picks) :
       /\ NextPosted(i)
       /\ ~picks[i].outcome[1].raised
       /\ picks' = [picks EXCEPT ![i].pc = "delivered"]
       /\ LET parsed == picks[i].outcome[1].value
              total_to_ban == Len(parsed.keywords) + Len(parsed.headlines)
                                + Len(parsed.descriptions)
          IN /\ feedback_parsed' = << parsed >>
             /\ submit_enabled' = (total_to_ban > 0)
             /\ feedback_status' = IF total_to_ban > 0 THEN "ready to send"
                                   ELSE "no errors found"
  /\ UNCHANGED << p_file, p_pc, p_exc, p_delimiter, p_headers, p_error_col,
                  p_has_row_type, p_line, p_trace, all_errors, total_rows, error_rows,
                  success_rows, parse_result, s_pc, s_result, ad_posts, feedback_filepath,
                  posted, fnVars, genVars, tag_locked, sites, is_connected, c_pc, c_kind,
                  c_msg, sync_data, req_failed, cache, clock, conn_info, accountVars,
                  gistVars, cacheVars >>

\* _on_csv_parse_error for the parse that raised
DeliverParseError ==
  /\ \E i \in 1..Len(picks) :
       /\ NextPosted(i)
       /\ picks[i].outcome[1].raised
       /\ picks' = [picks EXCEPT ![i].pc = "delivered"]
  /\ feedback_parsed' = << >>
  /\ submit_enabled' = FALSE
  /\ feedback_status' = ""
  /\ UNCHANGED << p_file, p_pc, p_exc, p_delimiter, p_headers, p_error_col,
                  p_has_row_type, p_line, p_trace, all_errors, total_rows, error_rows,
                  success_rows, parse_result, s_pc, s_result, ad_posts, feedback_filepath,
                  posted, fnVars, genVars, tag_locked, sites, is_connected, c_pc, c_kind,
                  c_msg, sync_data, req_failed, cache, clock, conn_info, accountVars,
                  gistVars, cacheVars >>

\* the application with the feedback tab open and nothing picked
InitPicks == InitFn /\ GenAtRest /\ ParseAtRest /\ ConnAtRest

NextPicks ==
  \/ PickErrorCsv
  \/ PickCancelled
  \/ DoParse
  \/ DeliverParsed
  \/ DeliverParseError

SpecPicks == InitPicks /\ [][NextPicks]_vars

----------------------------------------------------------------------------
(* app/error_parser.py: _is_error_row and the two extractors called on their own *)

\* the text of each of the 15 headline columns and each of the 4 description columns
HeadlineTexts ==
  << "Join Now", "Free Trial", "Open Late", "Book Today", "Spin Class", "Yoga Studio",
     "Personal Coach", "New Members", "Family Plan", "No Contract", "Sauna Inside",
     "City Centre", "Student Offer", "Group Classes", "Swim Lanes" >>

DescriptionTexts ==
  << "Try a class on us.", "Train with a coach every week.",
     "Open every day from six to midnight.", "Bring a friend for free." >>

\* the columns that hold text in the rows tried
FilledHeadlines == {1, 2, 10, 12}
FilledDescriptions == {1, 2, 4}

HeadlineCol(i) == "Headline " \o ToString(i)
DescriptionCol(i) == "Description " \o ToString(i)

\* the dict csv.DictReader gives for a row under a header with all 19 columns, with
\* text in the headline columns hs and the description columns ds and "" elsewhere
reader_row(hs, ds) ==
  [k \in {HeadlineCol(i) : i \in 1..HeadlineColumns}
           \cup {DescriptionCol(i) : i \in 1..DescriptionColumns} |->
     IF \E i \in hs : k = HeadlineCol(i)
       THEN HeadlineTexts[CHOOSE i \in hs : k = HeadlineCol(i)]
     ELSE IF \E i \in ds : k = DescriptionCol(i)
       THEN DescriptionTexts[CHOOSE i \in ds : k = DescriptionCol(i)]
     ELSE ""]

\* rejection texts: one numbered column each, two columns, a general word, a literal text
RejectionTexts ==
  {HeadlineCol(i) \o " too long" : i \in 1..HeadlineColumns}
    \cup {DescriptionCol(i) \o " exceeds the limit" : i \in 1..DescriptionColumns}
    \cup { "Headline 1 and Headline 2 too long",
           "Disapproved: Headline 2",
           "The text Free Trial is not allowed",
           "Invalid value" }

\* the error texts the classifier is tried on
ClassifierTexts ==
  Range(ERROR_INDICATORS) \cup Range(SUCCESS_INDICATORS)
    \cup { "", "Pending review", "Created with error", "Not approved: policy violation" }

CallExtractHeadlineErrors ==
  /\ fn = "idle"
  /\ \E hs \in SUBSET FilledHeadlines, ds \in SUBSET FilledDescriptions,
        error_text \in RejectionTexts :
       /\ fn' = "_extract_headline_errors"
       /\ fn_args' = << reader_row(hs, ds), error_text >>
       /\ fn_result' = _extract_headline_errors(reader_row(hs, ds), error_text)
  /\ UNCHANGED << genVars, parseVars, connVars >>

CallExtractDescriptionErrors ==
  /\ fn = "idle"
  /\ \E hs \in SUBSET FilledHeadlines, ds \in SUBSET FilledDescriptions,
        error_text \in RejectionTexts :
       /\ fn' = "_extract_description_errors"
       /\ fn_args' = << reader_row(hs, ds), error_text >>
       /\ fn_result' = _extract_description_errors(reader_row(hs, ds), error_text)
  /\ UNCHANGED << genVars, parseVars, connVars >>

CallIsErrorRow ==
  /\ fn = "idle"
  /\ \E error_text \in ClassifierTexts :
       /\ fn' = "_is_error_row"
       /\ fn_args' = << error_text >>
       /\ fn_result' = << _is_error_row(error_text) >>
  /\ UNCHANGED << genVars, parseVars, connVars >>

InitExtract == InitFn /\ GenAtRest /\ ParseAtRest /\ ConnAtRest

NextExtract ==
  \/ CallExtractHeadlineErrors
  \/ CallExtractDescriptionErrors
  \/ CallIsErrorRow
  \/ FnReturn

SpecExtract == InitExtract /\ [][NextExtract]_vars

----------------------------------------------------------------------------
(* Claims about parse_error_csv *)

\* the trimmed text of a read row's error column, "" when no column was resolved
ErrorCell(entry) ==
  IF p_error_col = None THEN "" ELSE strip(get_or_empty(entry.row, p_error_col))

HasSuccessWord(text) ==
  \E s \in Range(SUCCESS_INDICATORS) : Contains(lower(text), s)

HasHardWord(text) ==
  \E w \in {"error", "rejected", "disapproved", "violation"} : Contains(lower(text), w)

CountedAs(kind) == Cardinality({i \in 1..Len(p_trace) : p_trace[i].counted = kind})

\* C3: in every ParseResult the four partitions together are as long as errors, and
\* total_rows = error_rows + success_rows; while rows are read, every row read so
\* far has been counted once, as an error or as a success
C3_PartitionAndCounts ==
  /\ p_pc \in {"rows", "returned"} =>
       /\ total_rows = error_rows + success_rows
       /\ total_rows = Len(p_trace)
  /\ p_pc = "returned" =>
       /\ Len(parse_result.keywords) + Len(parse_result.headlines)
            + Len(parse_result.descriptions) + Len(parse_result.other_errors)
          = Len(parse_result.errors)
       /\ parse_result.total_rows = parse_result.error_rows + parse_result.success_rows
       /\ parse_result.total_rows = Len(p_trace)

\* C3 witness: a ParseResult of two rows with headline, description and other errors
C3_Witness ==
  /\ p_pc = "returned"
  /\ parse_result.total_rows = 2
  /\ parse_result.headlines # << >>
  /\ parse_result.descriptions # << >>
  /\ \E i \in 1..Len(parse_result.other_errors) : parse_result.other_errors[i].type = "ad"

\* C4: a row is counted as a failure exactly when its trimmed error-column text is
\* not empty and does not both hold a success indicator and lack every hard-failure
\* word; every other row, those of a file without an error column included, is
\* counted as a success
C4_FailureRule ==
  /\ \A i \in 1..Len(p_trace) :
       LET text == ErrorCell(p_trace[i]) IN
       (p_trace[i].counted = "error")
         <=> (text # "" /\ ~(HasSuccessWord(text) /\ ~HasHardWord(text)))
  /\ p_pc \in {"rows", "returned"} =>
       /\ error_rows = CountedAs("error")
       /\ success_rows = CountedAs("success")

\* C4 witness: a parsed file with a failure row whose text holds a success indicator
\* next to a hard-failure word, and a success row whose text is not empty
C4_Witness ==
  /\ p_pc = "returned"
  /\ \E i \in 1..Len(p_trace) :
       /\ p_trace[i].counted = "error"
       /\ HasSuccessWord(ErrorCell(p_trace[i]))
  /\ \E i \in 1..Len(p_trace) :
       /\ p_trace[i].counted = "success"
       /\ ErrorCell(p_trace[i]) # ""

\* the file begins with a header row
HasHeaderRow(file) == file.lines # << >> /\ file.lines[1] # ""

\* C12: every ParsedError collected by parse_error_csv has a reason of at most 200
\* characters
C12_ReasonBound ==
  \A i \in 1..Len(all_errors) : Len(all_errors[i].reason) <= 200

\* the type a read row declares in its row-type column, "" when it declares none
DeclaredType(row) == strip(first_truthy(row, << "Row Type", "row type", "Type", "type" >>))

\* C13: every ParsedError carries as row_type the type its source row declares
C13_RowTypeKept ==
  \A i \in 1..Len(p_trace) :
    \A j \in 1..Len(p_trace[i].errors) :
      p_trace[i].errors[j].row_type = DeclaredType(p_trace[i].row)

\* the trimmed cells of the columns named prefix 1 .. prefix n that are not empty
Populated(row, prefix, n) ==
  SelectSeq([i \in 1..n |-> strip(get_or_empty(row, prefix \o ToString(i)))],
            LAMBDA v : v # "")

IsAdRow(row) == lower(DeclaredType(row)) \in {"responsive search ad", "ad", "text ad"}

HasGeneralWord(text) ==
  \E w \in {"policy", "trademark", "misleading", "restricted", "disapproved", "rejected"} :
    Contains(lower(text), w)

\* C14: a failing ad row whose rejection text holds a general-policy word yields one
\* headline error per populated Headline 1..15 and then one description error per
\* populated Description 1..4, in column order
C14_GeneralPolicy ==
  \A i \in 1..Len(p_trace) :
    LET entry == p_trace[i]
        hs == Populated(entry.row, "Headline ", 15)
        ds == Populated(entry.row, "Description ", 4)
        assets == SelectSeq(entry.errors, LAMBDA e : e.type \in {"headline", "description"})
    IN (entry.counted = "error" /\ IsAdRow(entry.row) /\ HasGeneralWord(ErrorCell(entry)))
       => [j \in 1..Len(assets) |-> << assets[j].type, assets[j].value >>]
            = [j \in 1..Len(hs) |-> << "headline", hs[j] >>]
              \o [j \in 1..Len(ds) |-> << "description", ds[j] >>]

\* C14 witness: the row with "Disapproved: trademark" has both its headlines and its
\* description attributed, none of which occurs in the rejection text
C14_Witness ==
  \E i \in 1..Len(p_trace) :
    /\ IsAdRow(p_trace[i].row)
    /\ ErrorCell(p_trace[i]) = "Disapproved: trademark"
    /\ Len(p_trace[i].errors) = 3
    /\ p_trace[i].errors[2].value = "Great Deals"
    /\ p_trace[i].errors[3].type = "description"

\* a header trimmed, lowercased, with spaces and hyphens turned into underscores
Normalized(h) == replace(replace(lower(strip(h)), " ", "_"), "-", "_")

ColumnVocabulary ==
  << "results", "result", "error", "error_details", "comment", "validation_error",
     "policy", "status" >>

\* C17: the error column is a header that matches exactly the earliest entry of the
\* vocabulary matched by any header; without an exact match, the first header whose
\* normalized name contains a word of the vocabulary; without either, none
C17_ErrorColumn ==
  p_pc \in {"rows", "returned"} =>
    LET n == Len(p_headers)
        exact == {k \in 1..Len(ColumnVocabulary) :
                    \E i \in 1..n : Normalized(p_headers[i]) = ColumnVocabulary[k]}
        loose == {i \in 1..n :
                    \E k \in 1..Len(ColumnVocabulary) :
                      Contains(Normalized(p_headers[i]), ColumnVocabulary[k])}
    IN IF exact # {}
       THEN /\ p_error_col \in Range(p_headers)
            /\ Normalized(p_error_col)
                 = ColumnVocabulary[CHOOSE k \in exact : \A j \in exact : k <= j]
       ELSE IF loose # {}
       THEN /\ p_error_col \in Range(p_headers)
            /\ Normalized(p_error_col)
                 = Normalized(p_headers[CHOOSE i \in loose : \A j \in loose : i <= j])
       ELSE p_error_col = None

\* C9: parse_error_csv returns a ParseResult only for a readable file that has a
\* header row, and reads no row of any other
C9_FailsFast ==
  /\ p_pc = "returned" => p_file.exists /\ p_file.readable /\ HasHeaderRow(p_file)
  /\ ~(p_file.exists /\ p_file.readable /\ HasHeaderRow(p_file)) => total_rows = 0

----------------------------------------------------------------------------
(* Claims about the feedback tab *)

\* C16: in every batch sent from the feedback tab each keyword item carries the
\* action auto_ban and each headline or description item the action pending
C16_ItemActions ==
  \A n \in 1..Len(ad_posts) :
    \A i \in 1..Len(ad_posts[n].errors) :
      LET item == ad_posts[n].errors[i] IN
      /\ item.type = "keyword" => item.action = "auto_ban"
      /\ item.type \in {"headline", "description"} => item.action = "pending"

\* C27: two files picked one after the other and both parses delivered, in either
\* order of completion: feedback_parsed is the report of the second file, the file
\* whose name is shown.
C27_ReportOfShownFile ==
  (/\ Len(picks) = 2
   /\ \A i \in 1..2 : picks[i].pc = "delivered"
   /\ \A i \in 1..2 : ~picks[i].outcome[1].raised)
    => /\ feedback_filepath = picks[2].file.path
       /\ feedback_parsed = << parse_error_csv(picks[2].file).value >>

\* C28: the feedback tab shows 'no errors found - all rows successful' only for a
\* parsed file whose error_rows is 0.
C28_SuccessMeansNoFailure ==
  (feedback_parsed # << >> /\ feedback_status = "no errors found")
    => feedback_parsed[1].error_rows = 0

----------------------------------------------------------------------------
(* Claims about the connection *)

ListFetches == {"get_sites", "get_banned", "get_banned_domains"}

\* C8: a getter whose request failed does not hand an empty list to its caller, and
\* the application is not connected by a startup or sync in which the request for
\* the site list or a deny-list failed
C8_FailureReported ==
  /\ \A a \in ListFetches :
       (a \in req_failed /\ sync_key(a) \in DOMAIN sync_data)
         => sync_data[sync_key(a)] # << >>
  /\ (is_connected /\ c_pc = "none" /\ c_kind \in {"startup", "sync"})
       => req_failed \cap ListFetches = {}

----------------------------------------------------------------------------
(* Claims about SheetAPI._get_cached *)

IsGet(i) == api_calls[i].kind = "get"

\* call j is the last _get_cached call for the action of call i before it
PreviousGet(j, i) ==
  /\ j < i
  /\ IsGet(j)
  /\ api_calls[j].action = api_calls[i].action
  /\ \A k \in (j + 1)..(i - 1) : ~(IsGet(k) /\ api_calls[k].action = api_calls[i].action)

\* call i may have been answered from what the request of call j stored
ServedFrom(j, i) ==
  /\ j < i
  /\ IsGet(j)
  /\ api_calls[j].requested
  /\ api_calls[j].action = api_calls[i].action
  /\ api_calls[j].answer.status # "error"
  /\ api_calls[j].answer = api_calls[i].answer
  /\ api_calls[i].now - api_calls[j].now < 60
  /\ \A k \in (j + 1)..(i - 1) : api_calls[k].kind # "clear"

\* C26: no error answer is stored or replayed; the _get_cached call that follows a
\* failed request for the same action issues a new request; and a call is answered
\* without a request only with the successful answer of an earlier request for the
\* same action, stored less than 60 seconds before and with no clear_cache since.
C26_CacheRule ==
  /\ \A key \in DOMAIN cache : cache[key].answer.status # "error"
  /\ \A i \in 1..Len(api_calls) : IsGet(i) =>
       /\ ~api_calls[i].requested =>
            /\ api_calls[i].answer.status # "error"
            /\ \E j \in 1..(i - 1) : ServedFrom(j, i)
       /\ \A j \in 1..(i - 1) :
            (PreviousGet(j, i) /\ api_calls[j].answer.status = "error")
              => api_calls[i].requested

\* C26 witness: a request fails, the next call for the action asks again and is
\* stored, a third call within the minute is answered from the cache, and a fourth
\* after the minute asks again
C26_Witness ==
  /\ Len(api_calls) = 4
  /\ \A i \in 1..4 : IsGet(i) /\ api_calls[i].action = "get_sites"
  /\ api_calls[1].answer.status = "error"
  /\ api_calls[2].requested /\ api_calls[2].answer.status # "error"
  /\ ~api_calls[3].requested
  /\ api_calls[4].requested /\ api_calls[4].now - api_calls[2].now >= 60

----------------------------------------------------------------------------
(* Claims about GistResolver *)

\* the Gist answered with a script_url that is not blank
GoodAnswer(answer) == answer.ok /\ strip(Get(answer.data, "script_url", "")) # ""

\* the values a good answer carries
AnswerValues(answer) ==
  LET c == gist_config_of(answer.data)
  IN << c.script_url, c.gemini_key, c.gemini_model >>

ConfigValues(c) == << c.script_url, c.gemini_key, c.gemini_model >>

\* the positions of the good answers before the last call
EarlierGood == {i \in 1..(Len(gist_answers) - 1) : GoodAnswer(gist_answers[i])}

\* C25: after any sequence of fetch_config calls the last call returned source
\* 'gist' with the Gist's values exactly when its fetch gave a script_url; otherwise
\* 'cached' with the values of the most recent earlier fetch that gave one, when
\* there is one; otherwise 'fallback' with the built-in constants; and the
\* script_url returned is never empty.
C25_ConfigSource ==
  Len(gist_answers) > 0 =>
    LET cur == gist_answers[Len(gist_answers)] IN
    /\ gist_config.script_url # ""
    /\ IF GoodAnswer(cur)
       THEN /\ gist_config.source = "gist"
            /\ ConfigValues(gist_config) = AnswerValues(cur)
       ELSE IF EarlierGood # {}
       THEN LET last == CHOOSE i \in EarlierGood : \A j \in EarlierGood : j <= i IN
            /\ gist_config.source = "cached"
            /\ ConfigValues(gist_config) = AnswerValues(gist_answers[last])
       ELSE /\ gist_config.source = "fallback"
            /\ ConfigValues(gist_config)
                 = << FALLBACK_SCRIPT_URL, "", FALLBACK_GEMINI_MODEL >>

\* C25 witness: a good fetch, then a fetch without script_url, then a failing one
\* answered from the cache with the values of the first
C25_Witness ==
  /\ Len(gist_answers) = 3
  /\ GoodAnswer(gist_answers[1])
  /\ gist_answers[2].ok /\ ~GoodAnswer(gist_answers[2])
  /\ ~gist_answers[3].ok
  /\ gist_config.source = "cached"

----------------------------------------------------------------------------
(* Claims about the account tab *)

\* C21: once the tag is locked, no step changes farmer_tag or sets tag_locked back to
\* false: not entering or leaving dev mode, locking a tag, saving the settings or a
\* synchronisation.
C21_LockedForever ==
  [][tag_locked => (tag_locked' /\ farmer' = farmer)]_vars

\* C21 witness: a tag typed and locked in this session, and a synchronisation run
\* after it
C21_Witness ==
  /\ tag_locked
  /\ farmer = "bob"
  /\ c_kind = "sync"
  /\ is_connected

----------------------------------------------------------------------------
(* Claims about the generation worker *)

\* C22: in dev mode no log_generation request is sent: no request the worker has
\* sent after a successful generate_csv carries the dev-mode tag.
C22_NoDevLog ==
  \A i \in 1..Len(log_calls) : ~_is_dev_mode(log_calls[i].farmer)

\* C23: at most one generation worker is active: while is_generating is true no step
\* starts a worker, a worker that was started finds is_generating true until
\* _on_generation_done runs for it, and only _on_generation_done sets it to false.
C23_OneWorker ==
  /\ [](w_pc # "none" => is_generating)
  /\ [][is_generating =>
          /\ ~(w_pc' = "refresh" /\ w_pc # "refresh")
          /\ (w_pc = "refresh" /\ w_pc' = "refresh") => UNCHANGED vars
          /\ ~is_generating' => (w_pc = "posted" /\ w_pc' = "none")]_vars

\* C23 witness: a worker in the middle of generate_csv, with the generate button's
\* handler refusing to start another
C23_Witness ==
  /\ is_generating
  /\ w_pc = "loop"
  /\ g_pc = "write"
  /\ ENABLED StartGenerationBusy
  /\ ~ENABLED StartGeneration

\* C24: every generation run that starts completes: _on_generation_done runs and
\* is_generating is false again, also when generate_csv fails for a site.
C24_RunCompletes == is_generating ~> ~is_generating

----------------------------------------------------------------------------
(* Claims about _extract_headline_errors, _extract_description_errors and _is_error_row *)

\* the numbered columns "word N" a rejection text names: N is the whole number
\* written after the word, so "Headline 12" names column 12 and not column 1
NamedColumns(error_text, word, n) ==
  LET error_lower == lower(error_text) IN
  {i \in 1..n :
     LET w == word \o ToString(i) IN
     \E q \in 1..(Len(error_lower) - Len(w) + 1) :
        /\ SubSeq(error_lower, q, q + Len(w) - 1) = w
        /\ \/ q + Len(w) > Len(error_lower)
           \/ IndexOf(Digits, CharAt(error_lower, q + Len(w))) = 0}

\* a rejection text that names exactly one column, holds no general-policy word and
\* holds none of the row's texts of the type asked for
OneColumnNamed(row, error_text, column, word, n) ==
  /\ Cardinality(NamedColumns(error_text, word, n)) = 1
  /\ ~\E w \in Range(general_words) : Contains(lower(error_text), w)
  /\ \A i \in 1..n :
       LET v == strip(get_or_empty(row, column \o ToString(i)))
       IN v # "" => ~Contains(lower(error_text), lower(v))

\* the text of the named column when it has one, as the list of values attributed
NamedValue(row, error_text, column, word, n) ==
  LET i == CHOOSE j \in NamedColumns(error_text, word, n) : TRUE
      v == strip(get_or_empty(row, column \o ToString(i)))
  IN IF v = "" THEN << >> ELSE << v >>

ValuesOf(errors) == [i \in 1..Len(errors) |-> errors[i].value]

\* C29: for a rejection text that names exactly one numbered column Headline N, holds
\* no general-policy word and no headline's text, _extract_headline_errors attributes
\* the headline of column N and no other; likewise _extract_description_errors for
\* Description N.
C29_OnlyNamedColumn ==
  /\ (/\ fn = "_extract_headline_errors"
      /\ OneColumnNamed(fn_args[1], fn_args[2], "Headline ", "headline ", HeadlineColumns))
       => ValuesOf(fn_result)
            = NamedValue(fn_args[1], fn_args[2], "Headline ", "headline ", HeadlineColumns)
  /\ (/\ fn = "_extract_description_errors"
      /\ OneColumnNamed(fn_args[1], fn_args[2], "Description ", "description ",
                        DescriptionColumns))
       => ValuesOf(fn_result)
            = NamedValue(fn_args[1], fn_args[2], "Description ", "description ",
                         DescriptionColumns)

\* C30: a row whose error text is exactly one of the phrases of ERROR_INDICATORS is
\* classified as a failure by _is_error_row.
C30_ListedPhraseIsFailure ==
  (fn = "_is_error_row" /\ fn_args[1] \in Range(ERROR_INDICATORS)) => fn_result[1]

====
